---- MODULE Spec2Model ----
(***************************************************************************)
(* The per-session gesture engine (server/modules/gestures.py), the model  *)
(* loader (server/modules/model_loader.py) and the session handler         *)
(* (server/ws_server.py) as a state machine.                               *)
(*                                                                         *)
(* Units.  Landmark coordinates are integers counting 0.005 of the         *)
(* normalised image size (1.0 = 200).  A smoothed coordinate is a mean of  *)
(* one to SMOOTHING_WINDOW raw coordinates; it is held multiplied by       *)
(* Scale (6), so that every mean is an integer, and every threshold it is  *)
(* compared with is multiplied by Scale as well.  Distances are compared   *)
(* by their squares.  Clock readings count tenths of a second.             *)
(* Confidences count hundredths.                                           *)
(***************************************************************************)
EXTENDS Integers, Sequences, FiniteSets, TLC

\* ---------------------------------------------------------------- config
PINCH_THRESHOLD_3D == 9
VOLUME_MOVE_THRESHOLD == 5
COOLDOWN == 8
GESTURE_STABILITY_FRAMES == 5
BUFFER_SIZE == 20
SMOOTHING_WINDOW == 3

\* Names imported by gestures.py (lines 5-9) that shared/config.py does not
\* set in this tree.
MODEL_CONFIDENCE_THRESHOLD == 70
INFERENCE_INTERVAL == 5
GESTURE_THRESHOLDS ==
    (<<"play_pause">> :> 80) @@ (<<"next_track">> :> 85) @@ (<<"prev_track">> :> 85)
    @@ (<<"open_spotify">> :> 90)

\* Literals of gestures.py
HAND_LANDMARKS == 21
POSE_LANDMARKS == 33
NOT_PINCH_DISTANCE == 20
FACE_MARGIN == 50
PREDICT_WINDOW == 20

HandLen == HAND_LANDMARKS * 3
PoseLen == POSE_LANDMARKS * 3

\* Every mean of 1..SMOOTHING_WINDOW integers, times Scale, is an integer.
Scale == 2 * SMOOTHING_WINDOW

\* A label or command is a string, held as the sequence of its segments
\* (<<"play_pause", "_INTENCIONAL">>), so that replace() and the substring
\* tests act on it; None is the empty sequence.
None == << >>
NoValue == << >>
IndexError == << >>

Square(x) == x * x
Abs(x) == IF x < 0 THEN -x ELSE x

RECURSIVE SumAt(_, _, _)
SumAt(rows, i, k) == IF k = 0 THEN 0 ELSE rows[k][i] + SumAt(rows, i, k - 1)

RECURSIVE MaxOver(_, _)
MaxOver(f, k) == IF k = 0 THEN 0
                 ELSE LET m == MaxOver(f, k - 1) IN IF f[k] > m THEN f[k] ELSE m

\* ------------------------------------------------------- GestureProcessor

\* __init__: the fields of a new processor.  interpreter tells whether the
\* model loader found and loaded a model (GestureModel.__init__).
NewProcessor(loaded) ==
    [ last_action_time       |-> 0,
      last_index_y           |-> NoValue,
      current_stable_gesture |-> None,
      gesture_count          |-> 0,
      frame_counter          |-> 0,
      history                |-> << >>,
      landmark_buffer        |-> << >>,
      interpreter            |-> loaded ]

\* a deque without maxlen
DequeAppendUnbounded(q, x, n) == Append(q, x)

\* deque(maxlen = n).append
DequeAppend(q, x, n) ==
    IF Len(q) < n THEN Append(q, x) ELSE Append(Tail(q), x)

\* _get_coords: the zero point below index*3+2 values, an IndexError at
\* exactly index*3+2 values (the z read), the point otherwise.
GetCoords(lm_list, index) ==
    IF Len(lm_list) < index * 3 + 2 THEN <<0, 0, 0>>
    ELSE IF Len(lm_list) < index * 3 + 3 THEN IndexError
    ELSE <<lm_list[index * 3 + 1], lm_list[index * 3 + 2], lm_list[index * 3 + 3]>>

Raises(p) == Len(p) # 3

\* _get_distance_3d, squared
GetDistance3dSq(p1, p2) ==
    Square(p1[1] - p2[1]) + Square(p1[2] - p2[2]) + Square(p1[3] - p2[3])

\* np.mean(history, axis=0): defined when all rows have one length.
Homogeneous(rows) == \A i, j \in 1..Len(rows) : Len(rows[i]) = Len(rows[j])

MeanRows(rows) ==
    [i \in 1..Len(rows[1]) |-> (Scale * SumAt(rows, i, Len(rows))) \div Len(rows)]

\* _smooth_landmarks: the window after the append, and the mean (raised when
\* numpy cannot build the array).
SmoothLandmarks(history, lm_list) ==
    LET h == DequeAppend(history, lm_list, SMOOTHING_WINDOW) IN
    [ history  |-> h,
      raised   |-> ~Homogeneous(h),
      smoothed |-> IF Homogeneous(h) THEN MeanRows(h) ELSE << >> ]

\* ---------------------------------------------------- _normalize_features
\* A half of the feature vector is held exactly: entry i is
\* num[i] / sqrt(den2).
Zeros(n) == [num |-> [i \in 1..n |-> 0], den2 |-> 1]

PointNormSq(v, k) ==
    Square(v[3 * k - 2]) + Square(v[3 * k - 1]) + Square(v[3 * k])

\* offsets taken from point 1 instead of the wrist
HandRelativeToThumbBase(hands_list) ==
    LET rel == [i \in 1..Len(hands_list) |->
                   hands_list[i] - hands_list[3 + ((i - 1) % 3) + 1]]
        norms == [k \in 1..(Len(hands_list) \div 3) |-> PointNormSq(rel, k)]
        max_dist2 == MaxOver(norms, Len(norms))
    IN [num |-> rel, den2 |-> IF max_dist2 > 0 THEN max_dist2 ELSE 1]

\* lines 67-73: hands - wrist, divided by the largest distance to the wrist
\* when that is positive; one entry per input value.
HandRelative(hands_list) ==
    LET rel == [i \in 1..Len(hands_list) |->
                   hands_list[i] - hands_list[((i - 1) % 3) + 1]]
        norms == [k \in 1..(Len(hands_list) \div 3) |-> PointNormSq(rel, k)]
        max_dist2 == MaxOver(norms, Len(norms))
    IN [num |-> rel, den2 |-> IF max_dist2 > 0 THEN max_dist2 ELSE 1]

\* lines 63-75
HandVector(hands_list) ==
    IF Len(hands_list) = 0 \/ Len(hands_list) < HAND_LANDMARKS * 3
    THEN Zeros(HAND_LANDMARKS * 3)
    ELSE IF Len(hands_list) % 3 # 0          \* reshape(-1, 3) raises
    THEN Zeros(HAND_LANDMARKS * 3)
    ELSE HandRelative(hands_list)

\* lines 82-92: pose - midpoint of the shoulders (points 11 and 12), divided
\* by the shoulder distance when that is positive.  Numerators are doubled
\* to keep the midpoint an integer: entry = (2 pose - (l + r)) / (2 |l - r|).
PoseRelative(pose_list) ==
    LET l == [c \in 1..3 |-> pose_list[11 * 3 + c]]
        r == [c \in 1..3 |-> pose_list[12 * 3 + c]]
        rel2 == [i \in 1..Len(pose_list) |->
                    2 * pose_list[i] - (l[((i - 1) % 3) + 1] + r[((i - 1) % 3) + 1])]
        shoulder_dist2 == GetDistance3dSq(l, r)
    IN [num |-> rel2,
        den2 |-> IF shoulder_dist2 > 0 THEN 4 * shoulder_dist2 ELSE 4]

\* lines 78-94
PoseVector(pose_list) ==
    IF Len(pose_list) = 0 \/ Len(pose_list) < POSE_LANDMARKS * 3
    THEN Zeros(POSE_LANDMARKS * 3)
    ELSE IF Len(pose_list) % 3 # 0
    THEN Zeros(POSE_LANDMARKS * 3)
    ELSE PoseRelative(pose_list)

\* line 97: the concatenation, kept as its two halves
NormalizeFeatures(hands_list, pose_list) ==
    [hand |-> HandVector(hands_list), pose |-> PoseVector(pose_list)]

FeatureLen(f) == Len(f.hand.num) + Len(f.pose.num)

\* ml_pipeline/scripts/preprocess.py, normalize_frame (lines 51-91): a half
\* is normalized when its key is in the frame and its list has exactly the
\* expected length, and is zeros otherwise; the arithmetic of lines 59-70 and
\* 74-89 is that of _normalize_features.
NormalizeFrame(frame) ==
    [hand |-> IF "hands" \in DOMAIN frame
                 /\ Len(frame.hands) = HAND_LANDMARKS * 3
              THEN HandRelative(frame.hands)
              ELSE Zeros(HAND_LANDMARKS * 3),
     pose |-> IF "pose" \in DOMAIN frame
                 /\ Len(frame.pose) = POSE_LANDMARKS * 3
              THEN PoseRelative(frame.pose)
              ELSE Zeros(POSE_LANDMARKS * 3)]

\* ---------------------------------------------------- _detect_raw_gesture
\* the finger shapes tested before the pinch
DetectRawGestureShapesFirst(lm_list) ==
    LET thumb_tip  == GetCoords(lm_list, 4)
        index_tip  == GetCoords(lm_list, 8)
        middle_tip == GetCoords(lm_list, 12)
        ring_tip   == GetCoords(lm_list, 16)
        index_pip  == GetCoords(lm_list, 6)
        middle_pip == GetCoords(lm_list, 10)
        ring_pip   == GetCoords(lm_list, 14)
        pinky_pip  == GetCoords(lm_list, 18)
    IN
    IF \E p \in {thumb_tip, index_tip, middle_tip, ring_tip,
                 index_pip, middle_pip, ring_pip, pinky_pip} : Raises(p)
    THEN None
    ELSE
    LET dist2 == GetDistance3dSq(thumb_tip, index_tip)
        index_extended  == index_tip[2] < index_pip[2]
        middle_extended == middle_tip[2] < middle_pip[2]
        ring_closed     == ring_tip[2] > ring_pip[2]
        pinky_closed    == ring_tip[2] > pinky_pip[2]
        index_closed    == index_tip[2] > index_pip[2]
        middle_closed   == middle_tip[2] > middle_pip[2]
        is_not_pinch    == dist2 > Square(Scale * NOT_PINCH_DISTANCE)
        thumb_is_tucked == index_pip[3] < thumb_tip[3]
    IN
    IF index_extended /\ middle_extended /\ ring_closed /\ pinky_closed
    THEN <<"next_track_shape">>
    ELSE IF dist2 < Square(Scale * PINCH_THRESHOLD_3D) THEN <<"pinch_active">>
    ELSE IF index_closed /\ middle_closed /\ ring_closed /\ is_not_pinch
            /\ thumb_is_tucked
    THEN <<"play_pause_shape">>
    ELSE None

\* lines 103-117: the eight reads; an IndexError in any of them returns None.
\* Smoothed coordinates carry the factor Scale, and so do the thresholds.
DetectRawGesture(lm_list) ==
    LET thumb_tip  == GetCoords(lm_list, 4)
        index_tip  == GetCoords(lm_list, 8)
        middle_tip == GetCoords(lm_list, 12)
        ring_tip   == GetCoords(lm_list, 16)
        index_pip  == GetCoords(lm_list, 6)
        middle_pip == GetCoords(lm_list, 10)
        ring_pip   == GetCoords(lm_list, 14)
        pinky_pip  == GetCoords(lm_list, 18)
    IN
    IF \E p \in {thumb_tip, index_tip, middle_tip, ring_tip,
                 index_pip, middle_pip, ring_pip, pinky_pip} : Raises(p)
    THEN None
    ELSE
    LET dist2 == GetDistance3dSq(thumb_tip, index_tip)
        index_extended  == index_tip[2] < index_pip[2]
        middle_extended == middle_tip[2] < middle_pip[2]
        ring_closed     == ring_tip[2] > ring_pip[2]
        pinky_closed    == ring_tip[2] > pinky_pip[2]
        index_closed    == index_tip[2] > index_pip[2]
        middle_closed   == middle_tip[2] > middle_pip[2]
        is_not_pinch    == dist2 > Square(Scale * NOT_PINCH_DISTANCE)
        thumb_is_tucked == index_pip[3] < thumb_tip[3]
    IN
    IF dist2 < Square(Scale * PINCH_THRESHOLD_3D) THEN <<"pinch_active">>
    ELSE IF index_extended /\ middle_extended /\ ring_closed /\ pinky_closed
    THEN <<"next_track_shape">>
    ELSE IF index_closed /\ middle_closed /\ ring_closed /\ is_not_pinch
            /\ thumb_is_tucked
    THEN <<"play_pause_shape">>
    ELSE None

\* --------------------------------------------------------- _handle_volume
\* The new baseline and the command.  last_index_y is NoValue or <<y>>.
VolumeUpInclusive(dy) == dy >= Scale * VOLUME_MOVE_THRESHOLD

\* lines 159 and 162
VolumeUp(dy) == dy > Scale * VOLUME_MOVE_THRESHOLD
VolumeDown(dy) == dy < -(Scale * VOLUME_MOVE_THRESHOLD)

\* the first sample not recorded
HandleVolumeNoBaseline(last_index_y, index_tip_y) ==
    IF last_index_y = NoValue
    THEN [last_index_y |-> NoValue, command |-> None]
    ELSE LET dy == last_index_y[1] - index_tip_y IN
         IF VolumeUp(dy)
         THEN [last_index_y |-> <<index_tip_y>>, command |-> <<"volume_up">>]
         ELSE IF VolumeDown(dy)
         THEN [last_index_y |-> <<index_tip_y>>, command |-> <<"volume_down">>]
         ELSE [last_index_y |-> last_index_y, command |-> None]

\* the baseline following every sample
HandleVolumeFollowing(last_index_y, index_tip_y) ==
    IF last_index_y = NoValue
    THEN [last_index_y |-> <<index_tip_y>>, command |-> None]
    ELSE LET dy == last_index_y[1] - index_tip_y IN
         IF VolumeUp(dy)
         THEN [last_index_y |-> <<index_tip_y>>, command |-> <<"volume_up">>]
         ELSE IF VolumeDown(dy)
         THEN [last_index_y |-> <<index_tip_y>>, command |-> <<"volume_down">>]
         ELSE [last_index_y |-> <<index_tip_y>>, command |-> None]

HandleVolume(last_index_y, index_tip_y) ==
    IF last_index_y = NoValue
    THEN [last_index_y |-> <<index_tip_y>>, command |-> None]
    ELSE LET dy == last_index_y[1] - index_tip_y IN
         IF VolumeUp(dy)
         THEN [last_index_y |-> <<index_tip_y>>, command |-> <<"volume_up">>]
         ELSE IF VolumeDown(dy)
         THEN [last_index_y |-> <<index_tip_y>>, command |-> <<"volume_down">>]
         ELSE [last_index_y |-> last_index_y, command |-> None]

\* ------------------------------------------ is_gesture_contextually_valid
\* data is the frame: a record with the fields the message carried.  The
\* wrist is smoothed (times Scale), the pose is raw.
HasField(data, k) == k \in DOMAIN data

\* one offset below the margin enough to reject
IsGestureContextuallyValidEitherAxis(current_stable_gesture, data, wrist_coords) ==
    IF current_stable_gesture # <<"play_pause_shape">> THEN TRUE
    ELSE IF ~HasField(data, "pose") THEN TRUE
    ELSE IF Len(data.pose) < 2 THEN TRUE
    ELSE ~(   Abs(wrist_coords[2] - Scale * data.pose[2]) < Scale * FACE_MARGIN
           \/ Abs(wrist_coords[1] - Scale * data.pose[1]) < Scale * FACE_MARGIN)

IsGestureContextuallyValid(current_stable_gesture, data, wrist_coords) ==
    IF current_stable_gesture # <<"play_pause_shape">> THEN TRUE
    ELSE IF ~HasField(data, "pose") THEN TRUE
    ELSE IF Len(data.pose) < 2 THEN TRUE          \* IndexError
    ELSE ~(   Abs(wrist_coords[2] - Scale * data.pose[2]) < Scale * FACE_MARGIN
           /\ Abs(wrist_coords[1] - Scale * data.pose[1]) < Scale * FACE_MARGIN)

\* ---------------------------------------------------- GestureModel.predict
\* oracle is what the interpreter would answer for a well-shaped window:
\* [error |-> TRUE] when inference raises, else the label of the arg-max
\* (label_map.get(str(idx), "Unknown_<idx>")) and its confidence.
NoPrediction == [label |-> None, confidence |-> 0]

WellShaped(landmark_buffer) ==
    \A i \in 1..Len(landmark_buffer) :
        FeatureLen(landmark_buffer[i]) = HAND_LANDMARKS * 3 + POSE_LANDMARKS * 3

\* the interpreter used without the test of line 75
PredictIgnoresLoad(interpreter, landmark_buffer, oracle) ==
    IF Len(landmark_buffer) # PREDICT_WINDOW THEN NoPrediction
    ELSE IF ~WellShaped(landmark_buffer) THEN NoPrediction
    ELSE IF oracle.error THEN NoPrediction
    ELSE [label |-> oracle.label, confidence |-> oracle.confidence]

Predict(interpreter, landmark_buffer, oracle) ==
    IF ~interpreter THEN NoPrediction
    ELSE IF Len(landmark_buffer) # PREDICT_WINDOW THEN NoPrediction
    ELSE IF ~WellShaped(landmark_buffer) THEN NoPrediction   \* ValueError, caught
    ELSE IF oracle.error THEN NoPrediction
    ELSE [label |-> oracle.label, confidence |-> oracle.confidence]

\* ------------------------------------------------------ process_landmarks
\* the cooldown taken in the wrong unit
InCooldownWrongUnit(now, last_action_time) ==
    now - last_action_time < COOLDOWN \div 10

\* a cooldown of half the length
InCooldownHalf(now, last_action_time) ==
    now - last_action_time < COOLDOWN \div 2

\* line 225
InCooldown(now, last_action_time) == now - last_action_time < COOLDOWN

\* line 238
IsPinch(thumb_tip, index_tip) ==
    GetDistance3dSq(thumb_tip, index_tip) < Square(Scale * PINCH_THRESHOLD_3D)

\* the cadence alone, whatever the buffer holds
ShouldPredictOnCadence(landmark_buffer, frame_counter) ==
    frame_counter % INFERENCE_INTERVAL = 0

\* line 257
ShouldPredict(landmark_buffer, frame_counter) ==
    Len(landmark_buffer) = BUFFER_SIZE /\ frame_counter % INFERENCE_INTERVAL = 0

\* line 265: str.replace("_INTENCIONAL", "")
CleanName(ml_gesture) == SelectSeq(ml_gesture, LAMBDA seg : seg # "_INTENCIONAL")

\* lines 262-266, for a table `thresholds`: dict.get with a default, twice
ThresholdIn(thresholds, ml_gesture) ==
    LET threshold == IF ml_gesture \in DOMAIN thresholds
                     THEN thresholds[ml_gesture]
                     ELSE MODEL_CONFIDENCE_THRESHOLD
    IN IF CleanName(ml_gesture) \in DOMAIN thresholds
       THEN thresholds[CleanName(ml_gesture)]
       ELSE threshold

Threshold(ml_gesture) == ThresholdIn(GESTURE_THRESHOLDS, ml_gesture)

\* line 270: the substring tests
Contains(ml_gesture, marker) == \E i \in 1..Len(ml_gesture) : ml_gesture[i] = marker

\* only the NO_ACTION marker looked for
IsNegativeClassNoActionOnly(ml_gesture) == Contains(ml_gesture, "NO_ACTION")

IsNegativeClass(ml_gesture) ==
    \/ Contains(ml_gesture, "NO_ACTION")
    \/ Contains(ml_gesture, "falso_positivo")
    \/ Contains(ml_gesture, "no_accion")

\* a confidence equal to the threshold accepted
ModelCommandInclusive(prediction) ==
    IF prediction.label = None THEN None
    ELSE IF ~(prediction.confidence >= Threshold(prediction.label)) THEN None
    ELSE IF IsNegativeClass(prediction.label) THEN None
    ELSE CleanName(prediction.label)

\* lines 260-281: the command a prediction becomes
ModelCommand(prediction) ==
    IF prediction.label = None THEN None
    ELSE IF ~(prediction.confidence > Threshold(prediction.label)) THEN None
    ELSE IF IsNegativeClass(prediction.label) THEN None
    ELSE CleanName(prediction.label)

\* What one call leaves behind: the processor, the value returned, whether
\* an exception left the call, and what the call went through.
Outcome(p, ret, raised, stage, invoked, prediction) ==
    [p |-> p, ret |-> ret, raised |-> raised, stage |-> stage,
     invoked |-> invoked, prediction |-> prediction]

\* last_action_time stamped whenever the classifier is asked
ModelStageStampsInvocation(p, now, oracle) ==
    LET counter == p.frame_counter + 1
        q == [p EXCEPT !.frame_counter = counter]
    IN
    IF ~ShouldPredict(q.landmark_buffer, counter)
    THEN Outcome(q, None, FALSE, "model", FALSE, NoPrediction)
    ELSE LET prediction == Predict(q.interpreter, q.landmark_buffer, oracle)
         IN Outcome([q EXCEPT !.last_action_time = now],
                    ModelCommand(prediction), FALSE, "model", TRUE, prediction)

\* frame_counter advanced by a whole interval per frame
ModelStageCountsInterval(p, now, oracle) ==
    LET counter == p.frame_counter + INFERENCE_INTERVAL
        q == [p EXCEPT !.frame_counter = counter]
    IN
    IF ~ShouldPredict(q.landmark_buffer, counter)
    THEN Outcome(q, None, FALSE, "model", FALSE, NoPrediction)
    ELSE LET prediction == Predict(q.interpreter, q.landmark_buffer, oracle)
             command == ModelCommand(prediction)
         IN IF command # None
            THEN Outcome([q EXCEPT !.last_action_time = now], command, FALSE,
                         "model", TRUE, prediction)
            ELSE Outcome(q, None, FALSE, "model", TRUE, prediction)

\* lines 254-281
ModelStage(p, now, oracle) ==
    LET counter == p.frame_counter + 1
        q == [p EXCEPT !.frame_counter = counter]
    IN
    IF ~ShouldPredict(q.landmark_buffer, counter)
    THEN Outcome(q, None, FALSE, "model", FALSE, NoPrediction)
    ELSE LET prediction == Predict(q.interpreter, q.landmark_buffer, oracle)
             command == ModelCommand(prediction)
         IN IF command # None
            THEN Outcome([q EXCEPT !.last_action_time = now], command, FALSE,
                         "model", TRUE, prediction)
            ELSE Outcome(q, None, FALSE, "model", TRUE, prediction)

\* the classifier asked before the pinch is looked at
PinchStageAfterModel(p, smoothed_lm_list, now, oracle) ==
    LET index_tip == GetCoords(smoothed_lm_list, 8)
        thumb_tip == GetCoords(smoothed_lm_list, 4)
        m == ModelStage(p, now, oracle)
    IN
    IF m.ret # None \/ Raises(index_tip) \/ Raises(thumb_tip) THEN m
    ELSE IF IsPinch(thumb_tip, index_tip)
    THEN LET v == HandleVolume(p.last_index_y, index_tip[2])
             q == [m.p EXCEPT !.current_stable_gesture = None,
                              !.gesture_count = 0,
                              !.last_index_y = v.last_index_y,
                              !.frame_counter = p.frame_counter]
         IN IF v.command # None
            THEN Outcome([q EXCEPT !.last_action_time = now], v.command, FALSE,
                         "pinch", m.invoked, m.prediction)
            ELSE Outcome(q, None, FALSE, "pinch", m.invoked, m.prediction)
    ELSE ModelStage([p EXCEPT !.last_index_y = NoValue], now, oracle)

\* a pinch frame counted like any other frame
PinchStageCountsFrame(p, smoothed_lm_list, now, oracle) ==
    LET index_tip == GetCoords(smoothed_lm_list, 8)
        thumb_tip == GetCoords(smoothed_lm_list, 4)
    IN
    IF Raises(index_tip) \/ Raises(thumb_tip)
    THEN ModelStage(p, now, oracle)
    ELSE IF IsPinch(thumb_tip, index_tip)
    THEN LET v == HandleVolume(p.last_index_y, index_tip[2])
             q == [p EXCEPT !.current_stable_gesture = None,
                            !.gesture_count = 0,
                            !.last_index_y = v.last_index_y,
                            !.frame_counter = @ + 1]
         IN IF v.command # None
            THEN Outcome([q EXCEPT !.last_action_time = now], v.command, FALSE,
                         "pinch", FALSE, NoPrediction)
            ELSE Outcome(q, None, FALSE, "pinch", FALSE, NoPrediction)
    ELSE ModelStage([p EXCEPT !.last_index_y = NoValue], now, oracle)

\* lines 228-252
PinchStage(p, smoothed_lm_list, now, oracle) ==
    LET index_tip == GetCoords(smoothed_lm_list, 8)
        thumb_tip == GetCoords(smoothed_lm_list, 4)
    IN
    IF Raises(index_tip) \/ Raises(thumb_tip)       \* except IndexError: pass
    THEN ModelStage(p, now, oracle)
    ELSE IF IsPinch(thumb_tip, index_tip)
    THEN LET v == HandleVolume(p.last_index_y, index_tip[2])
             q == [p EXCEPT !.current_stable_gesture = None,
                            !.gesture_count = 0,
                            !.last_index_y = v.last_index_y]
         IN IF v.command # None
            THEN Outcome([q EXCEPT !.last_action_time = now], v.command, FALSE,
                         "pinch", FALSE, NoPrediction)
            ELSE Outcome(q, None, FALSE, "pinch", FALSE, NoPrediction)
    ELSE ModelStage([p EXCEPT !.last_index_y = NoValue], now, oracle)

\* a frame without a hand given the mean of the window as it stands
ProcessLandmarksStaleHand(p, data, now, oracle) ==
    LET raw_lm_list == IF HasField(data, "hands") THEN data.hands ELSE << >>
        sm == IF raw_lm_list # << >>
              THEN SmoothLandmarks(p.history, raw_lm_list)
              ELSE [history |-> p.history, raised |-> FALSE,
                    smoothed |-> IF p.history # << >> /\ Homogeneous(p.history)
                                 THEN MeanRows(p.history) ELSE << >>]
        pose_list == IF HasField(data, "pose") THEN data.pose ELSE << >>
    IN
    IF sm.raised
    THEN Outcome([p EXCEPT !.history = sm.history], None, TRUE, "smooth", FALSE,
                 NoPrediction)
    ELSE
    LET normalized_features == NormalizeFeatures(sm.smoothed, pose_list)
        q == [p EXCEPT !.history = sm.history,
                       !.landmark_buffer =
                           DequeAppend(@, normalized_features, BUFFER_SIZE)]
    IN
    IF InCooldown(now, q.last_action_time)
    THEN Outcome(q, None, FALSE, "cooldown", FALSE, NoPrediction)
    ELSE PinchStage(q, sm.smoothed, now, oracle)

\* the cooldown test placed before the feature vector is buffered
ProcessLandmarksGatedBuffer(p, data, now, oracle) ==
    LET raw_lm_list == IF HasField(data, "hands") THEN data.hands ELSE << >>
        sm == IF raw_lm_list # << >>
              THEN SmoothLandmarks(p.history, raw_lm_list)
              ELSE [history |-> p.history, raised |-> FALSE, smoothed |-> << >>]
        pose_list == IF HasField(data, "pose") THEN data.pose ELSE << >>
    IN
    IF sm.raised
    THEN Outcome([p EXCEPT !.history = sm.history], None, TRUE, "smooth", FALSE,
                 NoPrediction)
    ELSE IF InCooldown(now, p.last_action_time)
    THEN Outcome([p EXCEPT !.history = sm.history], None, FALSE, "cooldown",
                 FALSE, NoPrediction)
    ELSE
    LET normalized_features == NormalizeFeatures(sm.smoothed, pose_list)
        q == [p EXCEPT !.history = sm.history,
                       !.landmark_buffer =
                           DequeAppend(@, normalized_features, BUFFER_SIZE)]
    IN PinchStage(q, sm.smoothed, now, oracle)

\* lines 196-226, then the stages above
ProcessLandmarks(p, data, now, oracle) ==
    LET raw_lm_list == IF HasField(data, "hands") THEN data.hands ELSE << >>
        sm == IF raw_lm_list # << >>
              THEN SmoothLandmarks(p.history, raw_lm_list)
              ELSE [history |-> p.history, raised |-> FALSE, smoothed |-> << >>]
        pose_list == IF HasField(data, "pose") THEN data.pose ELSE << >>
    IN
    IF sm.raised
    THEN Outcome([p EXCEPT !.history = sm.history], None, TRUE, "smooth", FALSE,
                 NoPrediction)
    ELSE
    LET normalized_features == NormalizeFeatures(sm.smoothed, pose_list)
        q == [p EXCEPT !.history = sm.history,
                       !.landmark_buffer =
                           DequeAppend(@, normalized_features, BUFFER_SIZE)]
    IN
    IF InCooldown(now, q.last_action_time)
    THEN Outcome(q, None, FALSE, "cooldown", FALSE, NoPrediction)
    ELSE PinchStage(q, sm.smoothed, now, oracle)

\* ------------------------------------------------------------ the inputs
\* A landmark vector, from its points (x, y, z).
Flatten(points, n) ==
    [i \in 1..(3 * n) |-> points[(i - 1) \div 3][((i - 1) % 3) + 1]]

\* An open hand: wrist low in the image, every finger tip above its PIP.
OpenPoints ==
    [k \in 0..(HAND_LANDMARKS - 1) |->
        CASE k = 0  -> <<100, 160, 0>>
          [] k = 4  -> <<60, 110, 5>>
          [] k = 6  -> <<90, 100, 0>>
          [] k = 8  -> <<90, 60, 0>>
          [] k = 10 -> <<100, 95, 0>>
          [] k = 12 -> <<100, 50, 0>>
          [] k = 14 -> <<110, 100, 0>>
          [] k = 16 -> <<110, 60, 0>>
          [] k = 18 -> <<120, 110, 0>>
          [] OTHER  -> <<100, 130, 0>>]

With(points, changes) ==
    [k \in DOMAIN points |-> IF k \in DOMAIN changes THEN changes[k] ELSE points[k]]

OpenHand == Flatten(OpenPoints, HAND_LANDMARKS)

\* Index, middle and ring tips below their PIPs, thumb tip behind the index
\* PIP and more than 0.1 from the index tip.
FistHand ==
    Flatten(With(OpenPoints, (8 :> <<90, 120, 0>>) @@ (12 :> <<100, 120, 0>>)
                             @@ (16 :> <<110, 120, 0>>)), HAND_LANDMARKS)

\* Index and middle tips above their PIPs, ring tip below the ring and pinky
\* PIPs.
TwoFingerHand ==
    Flatten(With(OpenPoints, (16 :> <<110, 120, 0>>)), HAND_LANDMARKS)

\* Thumb tip 0.02 from the index tip, index tip at height y.
PinchHand(y) ==
    Flatten(With(OpenPoints, (4 :> <<94, y, 0>>) @@ (8 :> <<90, y, 0>>)),
            HAND_LANDMARKS)

\* 21 points in one place: the largest distance to the wrist is zero
PointHand == Flatten([k \in 0..(HAND_LANDMARKS - 1) |-> <<100, 130, 0>>],
                     HAND_LANDMARKS)

\* 22 points: a vector one point too long
LongHand ==
    Flatten([k \in 0..HAND_LANDMARKS |->
                IF k < HAND_LANDMARKS THEN OpenPoints[k] ELSE <<100, 130, 0>>],
            HAND_LANDMARKS + 1)

\* A pose with its nose at (100, nose_y) and the shoulders 0.4 apart.
Pose(nose_y) ==
    Flatten([k \in 0..(POSE_LANDMARKS - 1) |->
                CASE k = 0  -> <<100, nose_y, 0>>
                  [] k = 11 -> <<60, 100, 0>>
                  [] k = 12 -> <<140, 100, 0>>
                  [] OTHER  -> <<100, 100, 0>>],
            POSE_LANDMARKS)

NearPose == Pose(150)
FarPose == Pose(40)

\* The frames of a message (serialize_landmarks sets "hands" and "pose" only
\* for what was detected).
HandsOnly(h) == [hands |-> h]
PoseOnly(q) == [pose |-> q]
Both(h, q) == [hands |-> h, pose |-> q]

\* What the interpreter may answer: the classes the data collector records
\* (client/data_collector.py, GESTURE_CLASSES), an index the label map lacks,
\* and a failed inference.
Answer(label, confidence) ==
    [error |-> FALSE, label |-> label, confidence |-> confidence]

InferenceError == [error |-> TRUE, label |-> None, confidence |-> 0]

Oracles ==
    { InferenceError,
      Answer(<<"play_pause", "_INTENCIONAL">>, 95),
      Answer(<<"play_pause", "_INTENCIONAL">>, 80),
      Answer(<<"next_track", "_INTENCIONAL">>, 90),
      Answer(<<"prev_track", "_INTENCIONAL">>, 90),
      Answer(<<"open_spotify", "_INTENTIONAL">>, 95),
      Answer(<<"falso_positivo", "_FUMAR">>, 99),
      Answer(<<"Unknown_", "7">>, 95) }

\* client/data_collector.py, GESTURE_CLASSES: the labels the model is trained
\* on, each a gesture name and its suffix.
GESTURE_CLASSES ==
    { <<"play_pause", "_INTENCIONAL">>, <<"next_track", "_INTENCIONAL">>,
      <<"prev_track", "_INTENCIONAL">>, <<"open_spotify", "_INTENTIONAL">>,
      <<"falso_positivo", "_FUMAR">>, <<"falso_positivo", "_RASCAR">>,
      <<"no_accion", "_MANO_ABIERTA">>, <<"no_accion", "_MOVIMIENTO_ALEATORIO">> }

\* client/actions/action_executor.py: the keys of ACTION_DISPLAY_MAP, and
\* execute_action, which acts on these and reports any other gesture unknown.
ACTION_DISPLAY_MAP ==
    { <<"play_pause">>, <<"next_track">>, <<"prev_track">>, <<"volume_up">>,
      <<"volume_down">>, <<"open_spotify">> }

ExecuteAction(gesture) ==
    IF gesture \in ACTION_DISPLAY_MAP THEN "executing" ELSE "unknown gesture"

\* ------------------------------------------------------- shared/schemas.py
PROTOCOL_VERSION == "1.0"

\* A message is a text.  What matters of it to json.loads: whether it is
\* well-formed JSON, whether its brackets nest deeper than the interpreter's
\* recursion limit (the scanner descends before it can tell a text
\* well-formed), and the value it denotes: an object with its fields, an
\* array, or null.
Text(well_formed, deep, value) ==
    [well_formed |-> well_formed, deep |-> deep, value |-> value]

Object(fields) == [type |-> "object", fields |-> fields]
Array == [type |-> "array", fields |-> << >>]
Null == [type |-> "null", fields |-> << >>]

Returns(value) == [raises |-> "none", value |-> value]
Raise(exception) == [raises |-> exception, value |-> Null]

\* JSONDecodeError and UnicodeDecodeError are ValueErrors; RecursionError is
\* not.
JsonLoads(message) ==
    IF message.deep THEN Raise("RecursionError")
    ELSE IF ~message.well_formed THEN Raise("ValueError")
    ELSE Returns(message.value)

\* parse_message: data.get raises AttributeError on a value that is not an
\* object, and gives None, which is not "1.0", for an object without
\* 'version'
ParseMessage(message) ==
    LET loaded == JsonLoads(message) IN
    IF loaded.raises # "none" THEN loaded
    ELSE IF loaded.value.type # "object" THEN Raise("AttributeError")
    ELSE IF ~HasField(loaded.value.fields, "version") THEN Raise("ValueError")
    ELSE IF loaded.value.fields.version # PROTOCOL_VERSION
    THEN Raise("ValueError")
    ELSE loaded

\* json.dumps of a dict: a well-formed text, as deep as the dict (two
\* levels), that denotes an object with the dict's keys and values.  A
\* finite float is written with repr and read back as the same float.
JsonDumps(data) == Text(TRUE, FALSE, Object(data))

\* A landmark list as MediaPipe gives it: a sequence of points (x, y, z).
Landmarks(points, n) == [k \in 1..n |-> points[k - 1]]

\* lines 33-35 and 40-43: x, y, z of every landmark in turn
RECURSIVE Extend(_)
Extend(landmark) ==
    IF landmark = << >> THEN << >>
    ELSE Head(landmark) \o Extend(Tail(landmark))

\* MediaPipe results: multi_hand_landmarks is None (here << >>) or a list of
\* hands, pose_landmarks is None or a pose; each has a field `landmark`.
Results(multi_hand_landmarks, pose_landmarks) ==
    [multi_hand_landmarks |-> multi_hand_landmarks,
     pose_landmarks |-> pose_landmarks]

NoLandmarks == [landmark |-> << >>, detected |-> FALSE]
Detection(landmark) == [landmark |-> landmark, detected |-> TRUE]

NoMessage == [returned |-> FALSE, text |-> Text(TRUE, FALSE, Null)]
Message(text) == [returned |-> TRUE, text |-> text]

Header(client_id, now) ==
    [version |-> PROTOCOL_VERSION, timestamp |-> now, client_id |-> client_id]

\* a frame without a hand never sent
SerializeLandmarksHandsOnly(results, client_id, frame_b64, now) ==
    LET has_hands == results.multi_hand_landmarks # << >>
        has_pose == results.pose_landmarks.detected
        lm_list == IF has_hands
                   THEN Extend(results.multi_hand_landmarks[1].landmark)
                   ELSE << >>
        pose == Extend(results.pose_landmarks.landmark)
        payload == IF has_hands /\ has_pose THEN Both(lm_list, pose)
                   ELSE HandsOnly(lm_list)
        frame == IF frame_b64 # "" THEN [frame |-> frame_b64]
                 ELSE [version |-> PROTOCOL_VERSION]
    IN IF has_hands
       THEN Message(JsonDumps(Header(client_id, now) @@ payload @@ frame))
       ELSE NoMessage

\* serialize_landmarks (lines 9-49), time.time() reading `now`; frame_b64 is
\* "" when not given, and the dict then gets no further key (@@ keeps the
\* value of a key its left side holds)
SerializeLandmarks(results, client_id, frame_b64, now) ==
    LET has_hands == results.multi_hand_landmarks # << >>
        has_pose == results.pose_landmarks.detected
        lm_list == IF has_hands
                   THEN Extend(results.multi_hand_landmarks[1].landmark)
                   ELSE << >>
        pose == Extend(results.pose_landmarks.landmark)
        payload == IF has_hands /\ has_pose THEN Both(lm_list, pose)
                   ELSE IF has_hands THEN HandsOnly(lm_list)
                   ELSE PoseOnly(pose)
        frame == IF frame_b64 # "" THEN [frame |-> frame_b64]
                 ELSE [version |-> PROTOCOL_VERSION]
    IN IF has_hands \/ has_pose
       THEN Message(JsonDumps(Header(client_id, now) @@ payload @@ frame))
       ELSE NoMessage

\* Messages parse_message does not return from: a malformed text, an
\* unclosed run of brackets deeper than the recursion limit, an object of
\* another protocol version, an object without a version, an array, null.
BadMessages ==
    { Text(FALSE, FALSE, Null),
      Text(FALSE, TRUE, Null),
      Text(TRUE, FALSE, Object([version |-> "2.0", hands |-> << >>])),
      Text(TRUE, FALSE, Object([hands |-> << >>])),
      Text(TRUE, FALSE, Array),
      Text(TRUE, FALSE, Null) }

\* ------------------------------------------------------------- the bounds
\* Frames a session receives after its lead-in, and messages it drops.
MaxFrames == 5
MaxDropped == 1

\* Clock readings are non-decreasing; between two frames the clock stands
\* still or advances by half the cooldown.  time.time() is far from 0.
Dts == {0, COOLDOWN \div 2}
StartTime == 2 * COOLDOWN

\* A session is driven by a script: whether the model file loaded, whether
\* the client also sends messages parse_message rejects, a lead-in (runs of
\* one frame each, all at the starting clock reading), and then up to
\* `frames` frames drawn from `palette`.
Times(frame, n) == [frame |-> frame, n |-> n]

Script(loaded, noise, lead, palette, frames) ==
    [loaded |-> loaded, noise |-> noise, lead |-> lead, palette |-> palette,
     frames |-> frames]

\* pinch and volume, from a new session
VolumeScript ==
    Script(TRUE, FALSE, << >>,
           { HandsOnly(PinchHand(100)), HandsOnly(PinchHand(90)),
             HandsOnly(PinchHand(88)), PoseOnly(FarPose) },
           MaxFrames - 1)

\* a pinch whose index tip moves by 0.03 and 0.06
StepScript ==
    Script(TRUE, FALSE, << >>,
           { HandsOnly(PinchHand(100)), HandsOnly(PinchHand(94)),
             HandsOnly(PinchHand(88)) },
           MaxFrames - 2)

\* a client that also sends messages parse_message rejects
NoiseScript ==
    Script(TRUE, TRUE, << >>,
           { HandsOnly(PinchHand(100)), HandsOnly(PinchHand(88)) },
           MaxFrames - 3)

\* hand shapes, from a new session
ShapeScript ==
    Script(TRUE, FALSE, << >>,
           { HandsOnly(FistHand), HandsOnly(TwoFingerHand), HandsOnly(OpenHand) },
           MaxFrames)

\* a fist near the face or away from it, the buffer filling on the way
FaceScript ==
    Script(TRUE, FALSE,
           << Times(PoseOnly(NearPose), BUFFER_SIZE - GESTURE_STABILITY_FRAMES) >>,
           { Both(FistHand, NearPose), Both(FistHand, FarPose) },
           MaxFrames)

\* the classifier's turn: 19 frames of an open hand, then anything
ModelScript(loaded) ==
    Script(loaded, FALSE, << Times(HandsOnly(OpenHand), BUFFER_SIZE - 1) >>,
           { HandsOnly(OpenHand), HandsOnly(PinchHand(100)), PoseOnly(FarPose) },
           MaxFrames - 2)

\* a pinch held while the buffer fills; the open hand leaves the smoothing
\* window with the second pinch frame, and the frame counter then stands one
\* short of the inference interval
HeldPinchScript ==
    Script(TRUE, FALSE,
           << Times(HandsOnly(OpenHand), INFERENCE_INTERVAL - SMOOTHING_WINDOW),
              Times(HandsOnly(PinchHand(100)),
                    BUFFER_SIZE - 1 - (INFERENCE_INTERVAL - SMOOTHING_WINDOW)) >>,
           { HandsOnly(PinchHand(100)), HandsOnly(PinchHand(64)),
             HandsOnly(OpenHand), PoseOnly(FarPose) },
           MaxFrames - 2)

\* hand vectors one point too long
LongScript ==
    Script(TRUE, FALSE, << Times(HandsOnly(LongHand), BUFFER_SIZE - 1) >>,
           { HandsOnly(LongHand), Both(LongHand, FarPose), HandsOnly(OpenHand) },
           MaxFrames - 3)

\* a hand collapsed into one point
DegenerateScript ==
    Script(TRUE, FALSE, << >>,
           { HandsOnly(PointHand), HandsOnly(OpenHand) },
           MaxFrames - 2)

\* a held pinch, then the hand opening and pinching again elsewhere
ReleaseScript ==
    Script(TRUE, FALSE,
           << Times(HandsOnly(PinchHand(100)), SMOOTHING_WINDOW) >>,
           { HandsOnly(PinchHand(64)), HandsOnly(OpenHand) },
           MaxFrames)

\* the classifier's second turn: the buffer full and the classifier asked
\* once on the way, then frames that count and pinch frames that do not
CadenceScript ==
    Script(TRUE, FALSE,
           << Times(HandsOnly(OpenHand), BUFFER_SIZE + INFERENCE_INTERVAL - 2) >>,
           { HandsOnly(OpenHand), HandsOnly(PinchHand(100)) },
           MaxFrames - 2)

Scripts ==
    { VolumeScript, StepScript, NoiseScript, ShapeScript, FaceScript,
      ModelScript(TRUE), ModelScript(FALSE), HeldPinchScript, LongScript,
      DegenerateScript, ReleaseScript, CadenceScript }

RECURSIVE LeadLen(_)
LeadLen(lead) == IF lead = << >> THEN 0 ELSE Head(lead).n + LeadLen(Tail(lead))

\* the k-th frame (from 0) of a lead-in
RECURSIVE LeadFrame(_, _)
LeadFrame(lead, k) ==
    IF k < Head(lead).n THEN Head(lead).frame
    ELSE LeadFrame(Tail(lead), k - Head(lead).n)

\* ---------------------------------------------------------------- state
VARIABLES
    processor,   \* handle_client's GestureProcessor
    connection,  \* "open" while handle_client's loop runs
    sent,        \* the commands sent on the websocket, each with its clock reading
    clock,       \* the last reading of time.time()
    script,      \* the session's script
    received,    \* frames processed so far (lead-in included)
    dropped,     \* messages dropped so far
    obs,         \* what the last message went through, and the numbers of the
                 \* frames on which the classifier was invoked
    run,         \* the raw shape of the last frames and how many in a row had it
    any_pose,    \* whether a frame so far carried pose data
    twin,        \* a second run of the engine over the same frames (TwoRuns)
    sessions,    \* the processors of concurrent connections (Sessions)
    call,        \* one call of a function of the engine (Functions)
    client       \* the WebSocketClient of a capture process (Client)

vars == <<processor, connection, sent, clock, script, received, dropped, obs,
          run, any_pose, twin, sessions, call, client>>

Before(p) ==
    [last_action_time |-> p.last_action_time, last_index_y |-> p.last_index_y,
     current_stable_gesture |-> p.current_stable_gesture,
     gesture_count |-> p.gesture_count, frame_counter |-> p.frame_counter]

\* What the message before the last one went through, in short.
Brief(ob) ==
    [kind |-> ob.kind, stage |-> ob.stage, ret |-> ob.ret,
     has_hand |-> ob.has_hand, raw_index_y |-> ob.raw_index_y,
     index_y |-> ob.index_y, before |-> ob.before,
     invoked |-> ob.invoked, prediction |-> ob.prediction,
     smoothed |-> ob.smoothed]

NoBrief ==
    [kind |-> "none", stage |-> "none", ret |-> None, has_hand |-> FALSE,
     raw_index_y |-> 0, index_y |-> 0, before |-> Before(NewProcessor(TRUE)),
     invoked |-> FALSE, prediction |-> NoPrediction, smoothed |-> << >>]

NoObs ==
    [kind |-> "none", data |-> << >>, now |-> 0, ret |-> None, stage |-> "none",
     invoked |-> FALSE, prediction |-> NoPrediction, smoothed |-> << >>,
     has_hand |-> FALSE, raw_index_y |-> 0, index_y |-> 0,
     feature_len |-> 0, sent_before |-> 0,
     before |-> Before(NewProcessor(TRUE)), prev |-> NoBrief,
     invoked_at |-> << >>, message |-> Text(TRUE, FALSE, Null)]

NoSessions == << >>
NoCall == << >>
NoClient == << >>

NewTwin(loaded) ==
    [processor |-> NewProcessor(loaded), clock |-> StartTime, ret |-> None]

Init ==
    /\ script \in Scripts
    /\ processor = NewProcessor(script.loaded)
    /\ connection = "open"
    /\ sent = << >>
    /\ clock = StartTime
    /\ received = 0
    /\ dropped = 0
    /\ obs = NoObs
    /\ run = [label |-> None, count |-> 0]
    /\ any_pose = FALSE
    /\ twin = NewTwin(script.loaded)
    /\ sessions = NoSessions
    /\ call = NoCall
    /\ client = NoClient

HasHand(data) == HasField(data, "hands") /\ data.hands # << >>

\* The raw shape of a frame: the heuristic classifier's label of the smoothed
\* hand, None without a hand.
ShapeOf(data, smoothed) ==
    IF HasHand(data) THEN DetectRawGesture(smoothed) ELSE None

NextRun(r, shape) ==
    IF shape = None THEN [label |-> None, count |-> 0]
    ELSE IF shape = r.label THEN [label |-> shape, count |-> r.count + 1]
    ELSE [label |-> shape, count |-> 1]

\* The y of a point as process_landmarks reads it (line 231), 0 when the read
\* raises.
PointY(lm_list, index) ==
    IF Raises(GetCoords(lm_list, index)) THEN 0 ELSE GetCoords(lm_list, index)[2]

\* a command put ahead of those already sent
SendNewestFirst(out, command) == <<command>> \o out

\* lines 27-29: await websocket.send, inside the loop; the next message is
\* read after it returns
Send(out, command) == Append(out, command)

\* handle_client, lines 17-30, for a message parse_message accepts: the frame
\* is processed at clock reading `now`, and the command, if any, is sent.  An
\* exception leaving process_landmarks ends the loop (lines 34-39).
Deliver(data, now, o) ==
    LET smoothed == IF HasHand(data) /\ ~o.raised
                    THEN MeanRows(o.p.history) ELSE << >>
    IN /\ processor' = o.p
       /\ clock' = now
       /\ connection' = IF o.raised THEN "closed" ELSE "open"
       /\ sent' = IF o.ret # None
                  THEN Send(sent, [gesture |-> o.ret, at |-> now,
                                   frame |-> received + 1])
                  ELSE sent
       /\ received' = received + 1
       /\ obs' = [kind |-> IF o.raised THEN "raised" ELSE "frame",
                  data |-> data, now |-> now, ret |-> o.ret, stage |-> o.stage,
                  invoked |-> o.invoked, prediction |-> o.prediction,
                  smoothed |-> smoothed,
                  has_hand |-> HasHand(data),
                  raw_index_y |-> IF HasHand(data) THEN PointY(data.hands, 8) ELSE 0,
                  index_y |-> PointY(smoothed, 8),
                  feature_len |-> IF o.raised THEN 0
                                  ELSE FeatureLen(o.p.landmark_buffer[Len(o.p.landmark_buffer)]),
                  sent_before |-> Len(sent),
                  before |-> Before(processor),
                  prev |-> Brief(obs),
                  invoked_at |-> IF o.invoked
                                 THEN Append(obs.invoked_at, received + 1)
                                 ELSE obs.invoked_at,
                  message |-> NoObs.message]
       /\ run' = NextRun(run, ShapeOf(data, smoothed))
       /\ any_pose' = (any_pose \/ HasField(data, "pose"))
       /\ UNCHANGED <<script, dropped>>

\* The interpreter's answer matters only on a frame that invokes it.
Handle(data, now) ==
    \E o \in {ProcessLandmarks(processor, data, now, InferenceError)} :
        IF o.invoked
        THEN \E oracle \in Oracles :
                \E oo \in {ProcessLandmarks(processor, data, now, oracle)} :
                    Deliver(data, now, oo)
        ELSE Deliver(data, now, o)

LeadIn ==
    /\ connection = "open"
    /\ received < LeadLen(script.lead)
    /\ Handle(LeadFrame(script.lead, received), clock)
    /\ UNCHANGED <<twin, sessions, call, client>>

Frame ==
    /\ connection = "open"
    /\ received >= LeadLen(script.lead)
    /\ received < LeadLen(script.lead) + script.frames
    /\ \E data \in script.palette, dt \in Dts : Handle(data, clock + dt)
    /\ UNCHANGED <<twin, sessions, call, client>>

\* handle_client, lines 18-22 and 34-39, for a message parse_message does
\* not return from: a ValueError is caught inside the loop and the message
\* dropped; any other exception leaves the loop, and the session ends.
Drop ==
    /\ connection = "open"
    /\ script.noise
    /\ dropped < MaxDropped
    /\ \E message \in BadMessages :
         \E r \in {ParseMessage(message)} :
            /\ r.raises # "none"
            /\ connection' = IF r.raises = "ValueError" THEN "open" ELSE "closed"
            /\ obs' = [NoObs EXCEPT
                         !.kind = IF r.raises = "ValueError" THEN "dropped"
                                  ELSE "failed",
                         !.sent_before = Len(sent),
                         !.before = Before(processor), !.prev = Brief(obs),
                         !.invoked_at = obs.invoked_at,
                         !.message = message]
    /\ dropped' = dropped + 1
    /\ UNCHANGED <<processor, sent, clock, script, received, run,
                   any_pose, twin, sessions, call, client>>

Next == LeadIn \/ Frame \/ Drop

Spec == Init /\ [][Next]_vars

\* ---------------------------------------------------------- two runs
\* The same frames given to two engines, each reading its own clock.  The
\* interpreter is a function of the window, and the two windows are equal, so
\* both runs get the same answer.
RunScript ==
    Script(TRUE, FALSE, << >>,
           { HandsOnly(PinchHand(100)), HandsOnly(PinchHand(88)) },
           MaxFrames - 1)

InitRuns ==
    /\ script = RunScript
    /\ processor = NewProcessor(script.loaded)
    /\ connection = "open"
    /\ sent = << >>
    /\ clock = StartTime
    /\ received = 0
    /\ dropped = 0
    /\ obs = NoObs
    /\ run = [label |-> None, count |-> 0]
    /\ any_pose = FALSE
    /\ twin = NewTwin(script.loaded)
    /\ sessions = NoSessions
    /\ call = NoCall
    /\ client = NoClient

FramePair ==
    /\ connection = "open"
    /\ received < script.frames
    /\ \E data \in script.palette, dt \in Dts, dt2 \in Dts, oracle \in Oracles :
         \E o \in {ProcessLandmarks(processor, data, clock + dt, oracle)},
            o2 \in {ProcessLandmarks(twin.processor, data, twin.clock + dt2, oracle)} :
            /\ o.invoked \/ o2.invoked \/ oracle = InferenceError
            /\ ~o.raised /\ ~o2.raised
            /\ Deliver(data, clock + dt, o)
            /\ twin' = [processor |-> o2.p, clock |-> twin.clock + dt2, ret |-> o2.ret]
            /\ UNCHANGED <<sessions, call, client>>

NextRuns == FramePair

TwoRuns == InitRuns /\ [][NextRuns]_vars

\* ------------------------------------------------------ two connections
\* handle_client runs once per connection, and its first statement builds the
\* connection's GestureProcessor (ws_server.py, line 14).  Processors live in
\* a heap; ProcessorOf is the object a connection's handler holds.  The
\* handlers share one event loop and one clock, and process_landmarks has no
\* await, so frames of the two connections interleave whole.
SessionIds == {1, 2}

\* one processor for the whole server
SharedProcessor(s) == 1

ProcessorOf(s) == s

\* `alone` is each connection's frames given, with the same clock readings,
\* to a processor nothing else touches.
NewSessions ==
    [ heap   |-> [k \in SessionIds |-> NewProcessor(TRUE)],
      alone  |-> [s \in SessionIds |-> NewProcessor(TRUE)],
      frames |-> [s \in SessionIds |-> 0],
      sent   |-> [s \in SessionIds |-> << >>],
      sent_alone |-> [s \in SessionIds |-> << >>],
      last   |-> 0,
      prev   |-> 0 ]

SessionScript ==
    Script(TRUE, FALSE, << >>,
           { HandsOnly(PinchHand(100)), HandsOnly(PinchHand(88)) },
           MaxFrames - 3)

InitSessions ==
    /\ script = SessionScript
    /\ processor = NewProcessor(script.loaded)
    /\ connection = "open"
    /\ sent = << >>
    /\ clock = StartTime
    /\ received = 0
    /\ dropped = 0
    /\ obs = NoObs
    /\ run = [label |-> None, count |-> 0]
    /\ any_pose = FALSE
    /\ twin = NewTwin(script.loaded)
    /\ sessions = NewSessions
    /\ call = NoCall
    /\ client = NoClient

Sending(out, ret) == IF ret # None THEN Append(out, ret) ELSE out

\* one iteration of the loop of connection s (lines 17-30)
SessionFrame(s) ==
    /\ sessions.frames[s] < script.frames
    /\ \E data \in script.palette, dt \in Dts :
         \E o \in {ProcessLandmarks(sessions.heap[ProcessorOf(s)], data,
                                    clock + dt, InferenceError)},
            a \in {ProcessLandmarks(sessions.alone[s], data, clock + dt,
                                    InferenceError)} :
            /\ ~o.raised /\ ~a.raised
            /\ clock' = clock + dt
            /\ sessions' =
                 [sessions EXCEPT !.heap[ProcessorOf(s)] = o.p,
                                  !.alone[s] = a.p,
                                  !.frames[s] = @ + 1,
                                  !.sent[s] = Sending(@, o.ret),
                                  !.sent_alone[s] = Sending(@, a.ret),
                                  !.last = s,
                                  !.prev = sessions.last]
    /\ UNCHANGED <<processor, connection, sent, script, received, dropped, obs,
                   run, any_pose, twin, call, client>>

NextSessions == \E s \in SessionIds : SessionFrame(s)

Sessions == InitSessions /\ [][NextSessions]_vars

\* ------------------------------------------------------- single calls
\* One call of a function of the engine on arguments drawn from the sets
\* below: the call is pending, then made, its result kept.
NewCall(fn, thresholds, prediction, gesture, data, lm_list) ==
    [ fn |-> fn, thresholds |-> thresholds, prediction |-> prediction,
      gesture |-> gesture, data |-> data, lm_list |-> lm_list,
      done |-> FALSE, result |-> NoValue ]

\* Threshold tables: the configured one, one with an entry for a suffixed
\* label next to the entry of its clean name, one with the suffixed entry
\* alone, one without either.
ThresholdTables ==
    { GESTURE_THRESHOLDS,
      (<<"play_pause", "_INTENCIONAL">> :> 60) @@ (<<"play_pause">> :> 90),
      (<<"play_pause", "_INTENCIONAL">> :> 60),
      (<<"next_track">> :> 85) }

Labels ==
    { <<"play_pause", "_INTENCIONAL">>, <<"play_pause">>,
      <<"next_track", "_INTENCIONAL">>, <<"prev_track", "_INTENCIONAL">>,
      <<"open_spotify", "_INTENTIONAL">>, <<"falso_positivo", "_FUMAR">>,
      <<"Unknown_", "7">> }

Confidences == {50, 60, 65, 70, 75, 80, 85, 90, 95}

ThresholdCalls ==
    { NewCall("threshold", t, [label |-> l, confidence |-> c], None,
              HandsOnly(<< >>), << >>) :
        t \in ThresholdTables, l \in Labels, c \in Confidences }

\* Hands for the shape classifier.  The thumb tip lies d to the right of the
\* index tip and at its depth z; the index, middle and ring tips are above,
\* level with or below the PIP joints they are compared with (index PIP at
\* y = 100, middle PIP at 95, ring PIP at 100, pinky PIP at 110).
ThumbDistances ==
    { PINCH_THRESHOLD_3D - 5, PINCH_THRESHOLD_3D, PINCH_THRESHOLD_3D + 5,
      NOT_PINCH_DISTANCE, NOT_PINCH_DISTANCE + 10 }

ShapedHand(d, z, index_y, middle_y, ring_y) ==
    Flatten(With(OpenPoints, (4 :> <<90 + d, index_y, z>>)
                             @@ (8 :> <<90, index_y, z>>)
                             @@ (12 :> <<100, middle_y, 0>>)
                             @@ (16 :> <<110, ring_y, 0>>)), HAND_LANDMARKS)

FullHands ==
    { ShapedHand(d, z, index_y, middle_y, ring_y) :
        d \in ThumbDistances, z \in {-5, 5}, index_y \in {60, 100, 120},
        middle_y \in {50, 120}, ring_y \in {60, 105, 120} }

\* Vectors with fewer than 63 values: cut short after a number of values.
Prefix(lm_list, n) == SubSeq(lm_list, 1, n)

ShortLengths ==
    { 0, 3, 4 * 3 + 2, 8 * 3 + 2, 8 * 3 + 3, 18 * 3 + 2, 18 * 3 + 3,
      HAND_LANDMARKS * 3 - 1 }

ShortHands ==
    { Prefix(h, n) : h \in {OpenHand, FistHand, TwoFingerHand, PinchHand(100)},
                     n \in ShortLengths }

DetectCalls ==
    { NewCall("detect", GESTURE_THRESHOLDS, NoPrediction, None,
              HandsOnly(lm), lm) : lm \in FullHands \cup ShortHands }

\* Frames for the context check: a fist (wrist at (100, 160)) without pose
\* data, with a pose list too short to hold a nose, and with the nose at
\* offsets around FACE_MARGIN from the wrist in x and in y.
NosePose(nose_x, nose_y) ==
    Flatten([k \in 0..(POSE_LANDMARKS - 1) |->
                IF k = 0 THEN <<nose_x, nose_y, 0>> ELSE <<100, 100, 0>>],
            POSE_LANDMARKS)

NoseOffsets == {0, FACE_MARGIN - 1, FACE_MARGIN, FACE_MARGIN + 40}

ContextFrames ==
    { HandsOnly(FistHand), Both(FistHand, << >>), Both(FistHand, <<100>>) }
    \cup { Both(FistHand, NosePose(100 - dx, 160 - dy)) :
             dx \in NoseOffsets, dy \in NoseOffsets }
    \cup { Both(FistHand, NosePose(100 + dx, 160 + dy)) :
             dx \in NoseOffsets, dy \in NoseOffsets }

StableGestures ==
    { None, <<"pinch_active">>, <<"next_track_shape">>, <<"play_pause_shape">> }

ContextCalls ==
    { NewCall("context", GESTURE_THRESHOLDS, NoPrediction, g, d, d.hands) :
        g \in StableGestures, d \in ContextFrames }

\* Frames for the two normalizers: each half absent, empty, a point short,
\* of the expected length, one value or one point too long.
HandLists ==
    { << >>, Prefix(OpenHand, (HAND_LANDMARKS - 1) * 3), OpenHand,
      Append(OpenHand, 100), LongHand }

PoseLists ==
    { << >>, Prefix(FarPose, (POSE_LANDMARKS - 1) * 3), FarPose,
      Append(FarPose, 100), FarPose \o <<100, 100, 0>> }

NormalizerFrames ==
    { [client_id |-> "client"] }
    \cup { HandsOnly(h) : h \in HandLists }
    \cup { PoseOnly(q) : q \in PoseLists }
    \cup { Both(h, q) : h \in HandLists, q \in PoseLists }

NormalizeCalls ==
    { NewCall("normalize", GESTURE_THRESHOLDS, NoPrediction, None, d, << >>) :
        d \in NormalizerFrames }

\* MediaPipe results for the serializer: no hand, one hand or two, with and
\* without a pose; a base64 frame given or not.
HandDetections ==
    { << >>,
      << Detection(Landmarks(OpenPoints, HAND_LANDMARKS)) >>,
      << Detection(Landmarks(With(OpenPoints, (8 :> <<90, 100, -5>>)),
                             HAND_LANDMARKS)) >>,
      << Detection(Landmarks(With(OpenPoints, (8 :> <<90, 100, -5>>)),
                             HAND_LANDMARKS)),
         Detection(Landmarks(OpenPoints, HAND_LANDMARKS)) >> }

PosePoints(nose_y) ==
    [k \in 0..(POSE_LANDMARKS - 1) |->
        CASE k = 0  -> <<100, nose_y, 0>>
          [] k = 11 -> <<60, 100, 0>>
          [] k = 12 -> <<140, 100, 0>>
          [] OTHER  -> <<100, 100, 0>>]

PoseDetections ==
    { NoLandmarks,
      Detection(Landmarks(PosePoints(40), POSE_LANDMARKS)),
      Detection(Landmarks(PosePoints(150), POSE_LANDMARKS)) }

SerializeCalls ==
    { NewCall("serialize", GESTURE_THRESHOLDS, NoPrediction, <<frame_b64>>,
              Results(h, q), << >>) :
        h \in HandDetections, q \in PoseDetections,
        frame_b64 \in {"", "aGFuZA=="} }

Calls ==
    ThresholdCalls \cup DetectCalls \cup ContextCalls \cup NormalizeCalls
    \cup SerializeCalls

InitCalls ==
    /\ script = RunScript
    /\ processor = NewProcessor(script.loaded)
    /\ connection = "open"
    /\ sent = << >>
    /\ clock = StartTime
    /\ received = 0
    /\ dropped = 0
    /\ obs = NoObs
    /\ run = [label |-> None, count |-> 0]
    /\ any_pose = FALSE
    /\ twin = NewTwin(script.loaded)
    /\ sessions = NoSessions
    /\ call \in Calls
    /\ client = NoClient

Return(result) ==
    /\ call' = [call EXCEPT !.done = TRUE, !.result = result]
    /\ UNCHANGED <<processor, connection, sent, clock, script, received,
                   dropped, obs, run, any_pose, twin, sessions, client>>

\* lines 260-268: the threshold resolved for a prediction, and whether the
\* prediction passes it
ResolveThreshold ==
    /\ call.fn = "threshold" /\ ~call.done
    /\ LET threshold == ThresholdIn(call.thresholds, call.prediction.label)
       IN Return([threshold |-> threshold,
                  passes |-> call.prediction.confidence > threshold])

\* A vector as the smoother hands it on from a window of one: coordinates
\* carry the factor Scale.
Scaled(lm_list) == [i \in 1..Len(lm_list) |-> Scale * lm_list[i]]

\* _detect_raw_gesture on one hand vector
DetectShape ==
    /\ call.fn = "detect" /\ ~call.done
    /\ Return(DetectRawGesture(Scaled(call.lm_list)))

\* is_gesture_contextually_valid for a stable gesture, the frame and the
\* smoothed wrist
CheckContext ==
    /\ call.fn = "context" /\ ~call.done
    /\ Return(IsGestureContextuallyValid(call.gesture, call.data,
                                         GetCoords(Scaled(call.lm_list), 0)))

\* one frame given to the server's _normalize_features, as process_landmarks
\* calls it (lines 200-218, the hand not smoothed), and to the training
\* pipeline's normalize_frame
NormalizeBoth ==
    /\ call.fn = "normalize" /\ ~call.done
    /\ LET hands_list == IF HasField(call.data, "hands") THEN call.data.hands
                         ELSE << >>
           pose_list == IF HasField(call.data, "pose") THEN call.data.pose
                        ELSE << >>
       IN Return([server |-> NormalizeFeatures(hands_list, pose_list),
                  training |-> NormalizeFrame(call.data)])

\* serialize_landmarks on the client, and parse_message on the server for
\* the message it returns
SerializeAndParse ==
    /\ call.fn = "serialize" /\ ~call.done
    /\ LET message == SerializeLandmarks(call.data, "client", call.gesture[1],
                                         clock)
       IN Return([message |-> message,
                  parsed |-> IF message.returned THEN ParseMessage(message.text)
                             ELSE Raise("none sent")])

NextCalls ==
    \/ ResolveThreshold \/ DetectShape \/ CheckContext \/ NormalizeBoth
    \/ SerializeAndParse

Functions == InitCalls /\ [][NextCalls]_vars

\* ------------------------------------------------------- the client
\* client/ws_client.py: a WebSocketClient in the capture process.  The
\* capture loop (send_data), connect_and_listen, the sender loop and the
\* receiver loop are coroutines of one event loop: each runs from one await
\* to the next without interruption.  Frames are numbered in the order in
\* which the capture loop hands them to send_data.
QUEUE_MAXSIZE == 30

\* Frames captured before the connection is made and beyond the capacity of
\* the queue, and commands the server sends.
MaxEarly == 1
MaxExtra == 3
MaxCommands == 1

MaxCaptured == QUEUE_MAXSIZE + MaxExtra

NoSend == [frame |-> 0, connected |-> FALSE, full |-> FALSE]

\* __init__ (lines 8-13); `last` is the last call of send_data: its frame,
\* whether self.websocket was set, and whether the call found the queue full.
NewClient ==
    [ websocket     |-> "none",     \* None, or a connection "open" or "closed"
      message_queue |-> << >>,
      sender        |-> "idle",
      data_json     |-> 0,          \* the frame the sender loop holds
      receiver      |-> "idle",
      returned      |-> FALSE,      \* connect_and_listen has returned
      wire          |-> << >>,      \* the frames sent on the websocket
      captured      |-> 0,
      commands      |-> 0,
      last          |-> NoSend ]

\* asyncio.Queue(maxsize).put_nowait
PutNowait(message_queue, item) ==
    IF Len(message_queue) >= QUEUE_MAXSIZE
    THEN [raises |-> "QueueFull", queue |-> message_queue]
    ELSE [raises |-> "none", queue |-> Append(message_queue, item)]

\* the oldest frame given up for the new one
SendDataDropOldest(websocket, message_queue, data_json) ==
    IF websocket = "none" THEN message_queue
    ELSE IF Len(message_queue) >= QUEUE_MAXSIZE
    THEN Append(Tail(message_queue), data_json)
    ELSE Append(message_queue, data_json)

\* send_data (lines 33-44): the queue after the call
SendData(websocket, message_queue, data_json) ==
    IF websocket = "none" THEN message_queue
    ELSE PutNowait(message_queue, data_json).queue

InitClient ==
    /\ script = RunScript
    /\ processor = NewProcessor(script.loaded)
    /\ connection = "open"
    /\ sent = << >>
    /\ clock = StartTime
    /\ received = 0
    /\ dropped = 0
    /\ obs = NoObs
    /\ run = [label |-> None, count |-> 0]
    /\ any_pose = FALSE
    /\ twin = NewTwin(script.loaded)
    /\ sessions = NoSessions
    /\ call = NoCall
    /\ client = NewClient

Client_(c) ==
    /\ client' = c
    /\ UNCHANGED <<processor, connection, sent, clock, script, received,
                   dropped, obs, run, any_pose, twin, sessions, call>>

\* connect_and_listen, lines 19-27: the connection is made, and gather
\* starts both loops, each running up to its first await
Connect ==
    /\ client.websocket = "none" /\ ~client.returned
    /\ Client_([client EXCEPT !.websocket = "open", !.sender = "get",
                               !.receiver = "recv"])

\* lines 28-31: the connection is not made
ConnectRefused ==
    /\ client.websocket = "none" /\ ~client.returned
    /\ Client_([client EXCEPT !.returned = TRUE])

\* the capture loop hands a frame to send_data
Capture ==
    /\ client.captured < IF client.websocket = "none" THEN MaxEarly
                          ELSE MaxCaptured
    /\ LET data_json == client.captured + 1 IN
       Client_([client EXCEPT
                  !.captured = data_json,
                  !.message_queue = SendData(client.websocket, @, data_json),
                  !.last = [frame |-> data_json,
                            connected |-> client.websocket # "none",
                            full |-> Len(client.message_queue)
                                        = QUEUE_MAXSIZE]])

\* line 50: message_queue.get() returns the oldest frame; it waits while the
\* queue is empty
SenderGet ==
    /\ client.sender = "get"
    /\ client.message_queue # << >>
    /\ Client_([client EXCEPT !.data_json = Head(client.message_queue),
                               !.message_queue = Tail(@),
                               !.sender = "send"])

\* lines 51-57 and 48: the frame is sent and the loop goes on, or the
\* connection is closed, send raises and the loop is left
SenderSend ==
    /\ client.sender = "send"
    /\ IF client.websocket = "open"
       THEN Client_([client EXCEPT !.wire = Append(@, client.data_json),
                                   !.data_json = 0, !.sender = "get"])
       ELSE Client_([client EXCEPT !.data_json = 0, !.sender = "done"])

\* lines 63-70: a command arrives and is executed; lines 75-80: a message
\* that is not JSON arrives, and the loop sleeps before it goes on
ReceiveCommand ==
    /\ client.receiver = "recv" /\ client.websocket = "open"
    /\ client.commands < MaxCommands
    /\ \E well_formed \in BOOLEAN :
         Client_([client EXCEPT
                    !.commands = @ + 1,
                    !.receiver = IF well_formed THEN "recv" ELSE "sleep"])

\* line 80, then the loop test of line 61
ReceiverWake ==
    /\ client.receiver = "sleep"
    /\ Client_([client EXCEPT !.receiver = IF client.websocket = "open"
                                            THEN "recv" ELSE "done"])

\* lines 63 and 72-79: recv raises on a closed connection, and the loop is
\* left whichever exception it is
ReceiverClosed ==
    /\ client.receiver = "recv" /\ client.websocket = "closed"
    /\ Client_([client EXCEPT !.receiver = "done"])

\* the server closes the connection
ServerClose ==
    /\ client.websocket = "open"
    /\ Client_([client EXCEPT !.websocket = "closed"])

\* lines 24-27: gather returns when both loops have, and connect_and_listen
\* with it
ListenReturn ==
    /\ client.sender = "done" /\ client.receiver = "done" /\ ~client.returned
    /\ Client_([client EXCEPT !.returned = TRUE])

NextClient ==
    \/ Connect \/ ConnectRefused \/ Capture \/ SenderGet \/ SenderSend
    \/ ReceiveCommand \/ ReceiverWake \/ ReceiverClosed \/ ServerClose
    \/ ListenReturn

Client == InitClient /\ [][NextClient]_vars

\* The event loop runs every coroutine that can go on.  The capture loop
\* hands over a frame only when a hand is in view, the server closes when it
\* does: neither is bound to happen.
ClientLive ==
    /\ Client
    /\ WF_vars(SenderGet) /\ WF_vars(SenderSend) /\ WF_vars(ReceiverWake)
    /\ WF_vars(ReceiverClosed) /\ WF_vars(ListenReturn)

\* ================================================================ claims

Commands == {<<"play_pause">>, <<"next_track">>, <<"volume_up">>, <<"volume_down">>}

\* C1: over non-decreasing clock readings, any two frames that return a
\* command are at least COOLDOWN apart: a frame read less than COOLDOWN after
\* last_action_time returns no command, and every returned command sets
\* last_action_time to the frame's clock reading.
C1_Cooldown ==
    /\ \A i, j \in 1..Len(sent) : i < j => sent[j].at - sent[i].at >= COOLDOWN
    /\ obs.kind = "frame" /\ obs.now - obs.before.last_action_time < COOLDOWN
          => obs.ret = None
    /\ obs.kind = "frame" /\ obs.ret # None
          => processor.last_action_time = obs.now

\* two commands exactly COOLDOWN apart, and one refused in between
C1_Witness ==
    /\ Len(sent) = 2
    /\ sent[2].at - sent[1].at = COOLDOWN
    /\ obs.ret # None /\ obs.has_hand
    /\ obs.prev.kind = "frame" /\ obs.prev.stage = "cooldown"

\* C2: from a new engine, without pose data, the same heuristic shape on
\* consecutive frames returns nothing on frames 1..N-1 and exactly one
\* command on frame N = GESTURE_STABILITY_FRAMES (play_pause for the fist,
\* next_track for the two-finger shape).
ShapeCommand(label) ==
    IF label = <<"play_pause_shape">> THEN <<"play_pause">> ELSE <<"next_track">>

C2_StabilityConfirms ==
    (   script.lead = << >> /\ ~any_pose /\ obs.kind = "frame"
     /\ run.label \in {<<"play_pause_shape">>, <<"next_track_shape">>}
     /\ run.count = received)
    => /\ received < GESTURE_STABILITY_FRAMES => obs.ret = None /\ sent = << >>
       /\ received = GESTURE_STABILITY_FRAMES
             => /\ obs.ret = ShapeCommand(run.label)
                /\ Len(sent) = 1

\* C3: a frame without 'hands' never returns a command, and leaves the
\* stability state (None, 0) and the volume baseline None.
C3_NoHandsResets ==
    obs.kind = "frame" /\ ~HasField(obs.data, "hands")
    => /\ obs.ret = None
       /\ processor.current_stable_gesture = None
       /\ processor.gesture_count = 0
       /\ processor.last_index_y = NoValue

\* C4: with the fist shape stable for N frames and the wrist within 0.25 of
\* the nose in both x and y, the frame returns no command and the stability
\* count is 0 afterwards.
NearFace(data, smoothed) ==
    /\ HasField(data, "pose")
    /\ ~IsGestureContextuallyValid(<<"play_pause_shape">>, data, GetCoords(smoothed, 0))

C4_ContextVeto ==
    (   obs.kind = "frame"
     /\ run = [label |-> <<"play_pause_shape">>, count |-> GESTURE_STABILITY_FRAMES]
     /\ NearFace(obs.data, obs.smoothed))
    => obs.ret = None /\ processor.gesture_count = 0

\* C5: with a baseline recorded, delta = baseline_y - current_y gives
\* volume_up exactly when delta > VOLUME_MOVE_THRESHOLD and volume_down exactly
\* when delta < -VOLUME_MOVE_THRESHOLD (a delta of exactly the threshold gives
\* nothing), and every emitting sample moves the baseline to the sample.
Delta == obs.before.last_index_y[1] - obs.index_y

VolumeSample ==
    obs.kind = "frame" /\ obs.stage = "pinch" /\ obs.before.last_index_y # NoValue

C5_VolumeStrict ==
    VolumeSample
    => /\ obs.ret = <<"volume_up">> <=> Delta > Scale * VOLUME_MOVE_THRESHOLD
       /\ obs.ret = <<"volume_down">> <=> Delta < -(Scale * VOLUME_MOVE_THRESHOLD)
       /\ obs.ret \in {None, <<"volume_up">>, <<"volume_down">>}
       /\ obs.ret # None => processor.last_index_y = <<obs.index_y>>
       /\ obs.ret = None => processor.last_index_y = obs.before.last_index_y

\* a held pinch whose delta is exactly the threshold
C5_Witness ==
    /\ VolumeSample /\ obs.has_hand
    /\ Delta = Scale * VOLUME_MOVE_THRESHOLD
    /\ obs.ret = None

\* C6 as claimed: two consecutive pinch frames whose raw index-tip Y decreases
\* by 0.03 return volume_up exactly once, on the second.
PinchPair ==
    /\ obs.kind = "frame" /\ obs.stage = "pinch" /\ obs.has_hand
    /\ obs.prev.kind = "frame" /\ obs.prev.stage = "pinch" /\ obs.prev.has_hand

C6_RawStep ==
    PinchPair /\ obs.prev.raw_index_y - obs.raw_index_y = 6
    => obs.ret = <<"volume_up">> /\ obs.prev.ret = None

\* C6 amended: with no baseline recorded, two consecutive pinch frames whose
\* smoothed index-tip Y decreases by 0.03 return volume_up exactly once, on
\* the second; on a new engine that is a raw decrease of 0.06, so the same
\* two frames give volume_up again after every reset.
C6_SmoothedStep ==
    /\ PinchPair /\ obs.prev.before.last_index_y = NoValue
          /\ obs.prev.index_y - obs.index_y = Scale * 6
       => obs.ret = <<"volume_up">> /\ obs.prev.ret = None
    /\ PinchPair /\ received = 2 /\ script.lead = << >>
          /\ obs.prev.raw_index_y - obs.raw_index_y = 2 * 6
       => obs.ret = <<"volume_up">> /\ obs.prev.ret = None

C6_Witness ==
    /\ PinchPair /\ received = 2 /\ script.lead = << >>
    /\ obs.prev.before.last_index_y = NoValue
    /\ obs.prev.index_y - obs.index_y = Scale * 6
    /\ obs.ret = <<"volume_up">>

\* C7: a frame returns zero or one command and the server sends at most one
\* message for it; when the pinch path returns a command the classifier is
\* not invoked on that frame.
C7_OneCommand ==
    obs.kind = "frame"
    => /\ Len(sent) - obs.sent_before = (IF obs.ret = None THEN 0 ELSE 1)
       /\ obs.stage = "pinch" /\ obs.ret # None => ~obs.invoked

\* a volume command on a frame on which the classifier was due
C7_Witness ==
    /\ obs.kind = "frame" /\ obs.stage = "pinch" /\ obs.has_hand
    /\ obs.ret \in {<<"volume_up">>, <<"volume_down">>}
    /\ ShouldPredict(processor.landmark_buffer, processor.frame_counter + 1)
    /\ Len(sent) = obs.sent_before + 1

\* C8: whatever the lengths of the hand and pose vectors, the feature vector
\* has exactly 162 entries.
C8_FeatureLength ==
    obs.kind = "frame" => obs.feature_len = HAND_LANDMARKS * 3 + POSE_LANDMARKS * 3

\* C10: every command returned is one of play_pause, next_track, volume_up,
\* volume_down or a key of GESTURE_THRESHOLDS.
C10_Vocabulary ==
    obs.ret # None => obs.ret \in Commands \cup DOMAIN GESTURE_THRESHOLDS

\* C9: two runs of the engine over the same frames return the same commands,
\* frame by frame, whatever clock readings each run takes.
C9_SameCommands == twin.ret = obs.ret

\* C11: a prediction whose label carries a negative-class marker (NO_ACTION,
\* falso_positivo, no_accion) is never returned as a command, whatever its
\* confidence, and leaves last_action_time unchanged.
NegativeMarkers == {"NO_ACTION", "falso_positivo", "no_accion"}

Predicted == obs.kind = "frame" /\ obs.invoked /\ obs.prediction.label # None

NegativePrediction ==
    /\ Predicted
    /\ \E i \in 1..Len(obs.prediction.label) :
          obs.prediction.label[i] \in NegativeMarkers

C11_NegativeDiscarded ==
    NegativePrediction
    => /\ obs.ret = None
       /\ processor.last_action_time = obs.before.last_action_time
       /\ Len(sent) = obs.sent_before

\* a negative class predicted with a confidence above every threshold
C11_Witness ==
    /\ NegativePrediction
    /\ obs.prediction.confidence > Threshold(obs.prediction.label)
    /\ obs.prediction.confidence > MODEL_CONFIDENCE_THRESHOLD
    /\ obs.ret = None

\* C12: a prediction is returned as a command only if its confidence is
\* strictly greater than the resolved threshold; at or below the threshold it
\* is discarded and last_action_time is unchanged.
C12_StrictThreshold ==
    /\ obs.kind = "frame" /\ obs.stage = "model" /\ obs.ret # None
          => Predicted /\ obs.prediction.confidence > Threshold(obs.prediction.label)
    /\ Predicted /\ obs.prediction.confidence <= Threshold(obs.prediction.label)
          => /\ obs.ret = None
             /\ processor.last_action_time = obs.before.last_action_time

\* a confidence exactly at the threshold of its gesture
C12_Witness ==
    /\ Predicted
    /\ obs.prediction.confidence = Threshold(obs.prediction.label)
    /\ ~NegativePrediction
    /\ obs.ret = None

\* C13: with no interpreter (model file missing or not loadable) or an
\* inference that raises, predict returns (None, 0.0); the frame then returns
\* no command, last_action_time is unchanged, the call does not raise, and
\* the session goes on with the next frame.
FailedPrediction ==
    obs.kind = "frame" /\ obs.invoked /\ obs.prediction = NoPrediction

WrongLength(data) ==
    \/ HasField(data, "hands") /\ Len(data.hands) # HAND_LANDMARKS * 3
    \/ HasField(data, "pose") /\ Len(data.pose) # POSE_LANDMARKS * 3

C14_MalformedTolerated ==
    /\ obs.kind # "raised"
    /\ connection = "open"
    /\ obs.kind = "frame" /\ WrongLength(obs.data) => obs.ret = None

\* C15: each connection has its own GestureProcessor: under any interleaving
\* of the frames of two connections, a frame of one connection leaves the
\* other's smoothing window, feature buffer, cooldown time, volume baseline
\* and frame counter alone, and each connection's processor and the commands
\* sent to it are those of its own frames processed alone.
Other(s) == CHOOSE t \in SessionIds : t # s

C15_OwnProcessor ==
    /\ [](\A s \in SessionIds :
            /\ sessions.heap[ProcessorOf(s)] = sessions.alone[s]
            /\ sessions.sent[s] = sessions.sent_alone[s])
    /\ [][\A s \in SessionIds :
              sessions'.last = s /\ sessions'.frames[s] # sessions.frames[s]
              => sessions'.heap[ProcessorOf(Other(s))]
                    = sessions.heap[ProcessorOf(Other(s))]]_vars

\* connection 1 gets a volume command on its second frame, connection 2
\* having recorded a volume baseline in between
C15_Witness ==
    /\ sessions # NoSessions
    /\ sessions.last = 1 /\ sessions.prev = 2
    /\ sessions.frames[1] = 2 /\ sessions.frames[2] >= 1
    /\ Len(sessions.sent[1]) = 1
    /\ sessions.heap[ProcessorOf(2)].last_index_y # NoValue
    /\ sessions.heap[ProcessorOf(2)].last_action_time = 0

\* C16: after k calls that returned normally the feature buffer holds
\* min(k, BUFFER_SIZE) vectors, those of the most recent frames in arrival
\* order: every frame (in cooldown, pinch, without hands) appends exactly its
\* own vector, and the oldest is evicted once the buffer holds BUFFER_SIZE.
LastN(q, n) == IF Len(q) <= n THEN q ELSE SubSeq(q, Len(q) - n + 1, Len(q))

Min(a, b) == IF a < b THEN a ELSE b

FrameFeatures(ob) ==
    NormalizeFeatures(ob.smoothed,
                      IF HasField(ob.data, "pose") THEN ob.data.pose ELSE << >>)

C16_BufferFifo ==
    [][received' = received + 1 /\ obs'.kind = "frame"
       => /\ Len(processor'.landmark_buffer) = Min(received', BUFFER_SIZE)
          /\ processor'.landmark_buffer
                = LastN(Append(processor.landmark_buffer, FrameFeatures(obs')),
                        BUFFER_SIZE)]_vars

\* a frame in cooldown, with a vector unlike the one before it, buffered
\* while the oldest vector of a full buffer is evicted
C16_Witness ==
    /\ obs.kind = "frame" /\ obs.stage = "cooldown"
    /\ received > BUFFER_SIZE
    /\ Len(processor.landmark_buffer) = BUFFER_SIZE
    /\ processor.landmark_buffer[BUFFER_SIZE] = FrameFeatures(obs)
    /\ processor.landmark_buffer[BUFFER_SIZE]
          # processor.landmark_buffer[BUFFER_SIZE - 1]

\* C17: the smoothing window holds at most SMOOTHING_WINDOW raw hand vectors,
\* the most recent non-empty ones in arrival order (a frame without a hand
\* leaves it alone), and the smoothed vector of a frame is the element-wise
\* mean of the window after the frame's vector was appended.
IsMeanOf(smoothed, window) ==
    /\ Len(smoothed) = Len(window[1])
    /\ \A i \in 1..Len(smoothed) :
          Len(window) * smoothed[i] = Scale * SumAt(window, i, Len(window))

C17_SmoothingWindow ==
    [][received' = received + 1
       => /\ Len(processor'.history) <= SMOOTHING_WINDOW
          /\ processor'.history
                = IF obs'.has_hand
                  THEN LastN(Append(processor.history, obs'.data.hands),
                             SMOOTHING_WINDOW)
                  ELSE processor.history
          /\ obs'.kind = "frame" /\ obs'.has_hand
                => IsMeanOf(SmoothLandmarks(processor.history,
                                            obs'.data.hands).smoothed,
                            processor'.history)]_vars

\* a fourth hand vector evicts the first; the window holds three different
\* vectors
C17_Witness ==
    /\ obs.kind = "frame" /\ obs.has_hand
    /\ received > SMOOTHING_WINDOW
    /\ Len(processor.history) = SMOOTHING_WINDOW
    /\ processor.history[SMOOTHING_WINDOW] = obs.data.hands
    /\ processor.history[1] # processor.history[2]
    /\ processor.history[2] # processor.history[3]
    /\ processor.history[1] # processor.history[3]
    /\ IsMeanOf(obs.smoothed, processor.history)

\* C18: for every 21-point hand vector the first three entries of the
\* feature vector (the wrist) are exactly 0, whether the largest distance to
\* the wrist is zero or not.
LastFeatures == processor.landmark_buffer[Len(processor.landmark_buffer)]

HandFrame ==
    /\ obs.kind = "frame" /\ obs.has_hand
    /\ Len(obs.data.hands) = HAND_LANDMARKS * 3
    /\ Len(obs.smoothed) = HAND_LANDMARKS * 3

Spread(lm_list) ==
    \E k \in 1..(HAND_LANDMARKS - 1), c \in 1..3 : lm_list[3 * k + c] # lm_list[c]

C18_WristAtOrigin ==
    HandFrame
    => /\ \A c \in 1..3 : LastFeatures.hand.num[c] = 0
       /\ LastFeatures.hand.den2 > 0
       /\ Spread(obs.smoothed)
             => \E i \in 4..(HAND_LANDMARKS * 3) : LastFeatures.hand.num[i] # 0

\* a hand whose points coincide: nothing to divide by, the wrist still at 0
C18_Witness ==
    /\ HandFrame
    /\ ~Spread(obs.smoothed)
    /\ obs.smoothed[1] # 0 /\ obs.smoothed[2] # 0
    /\ \A c \in 1..3 : LastFeatures.hand.num[c] = 0

\* C19: after any processed frame whose hand is not a pinch the volume
\* baseline is "no prior sample", also when the frame arrived during cooldown;
\* so the first pinch frame after a non-pinch frame only records the baseline
\* and returns no volume command.
NotPinchFrame(ob) ==
    /\ ob.kind = "frame" /\ ob.has_hand
    /\ Len(ob.smoothed) = HAND_LANDMARKS * 3
    /\ ~IsPinch(GetCoords(ob.smoothed, 4), GetCoords(ob.smoothed, 8))

PinchFrame(ob) ==
    /\ ob.kind = "frame" /\ ob.has_hand
    /\ Len(ob.smoothed) = HAND_LANDMARKS * 3
    /\ IsPinch(GetCoords(ob.smoothed, 4), GetCoords(ob.smoothed, 8))

C19_NonPinchResets ==
    /\ NotPinchFrame(obs) => processor.last_index_y = NoValue
    /\ PinchFrame(obs) /\ NotPinchFrame(obs.prev)
          => /\ obs.ret = None
             /\ obs.stage = "pinch" => processor.last_index_y = <<obs.index_y>>

\* C20: a volume sample within the dead-band of the baseline
\* (|baseline_y - current_y| <= VOLUME_MOVE_THRESHOLD) returns no command and
\* leaves the baseline where it was, however many such samples follow one
\* another.
DeadBand(baseline, y) == Abs(baseline[1] - y) <= Scale * VOLUME_MOVE_THRESHOLD

C20_DeadBand ==
    (   obs.kind = "frame" /\ obs.stage = "pinch"
     /\ obs.before.last_index_y # NoValue
     /\ DeadBand(obs.before.last_index_y, obs.index_y))
    => /\ obs.ret = None
       /\ Len(sent) = obs.sent_before
       /\ processor.last_index_y = obs.before.last_index_y

\* two dead-band samples in a row at different heights, neither at the
\* baseline, the baseline still that of the first sample
C20_Witness ==
    /\ obs.kind = "frame" /\ obs.stage = "pinch" /\ obs.has_hand
    /\ obs.prev.kind = "frame" /\ obs.prev.stage = "pinch" /\ obs.prev.has_hand
    /\ obs.prev.before.last_index_y # NoValue
    /\ obs.before.last_index_y = obs.prev.before.last_index_y
    /\ DeadBand(obs.before.last_index_y, obs.index_y)
    /\ obs.index_y # obs.before.last_index_y[1]
    /\ obs.prev.index_y # obs.before.last_index_y[1]
    /\ obs.index_y # obs.prev.index_y
    /\ processor.last_index_y = obs.prev.before.last_index_y

\* C21: the classifier is invoked on a frame only if, the frame's vector
\* appended, the feature buffer holds exactly BUFFER_SIZE vectors and
\* frame_counter (as incremented for the frame) is a multiple of
\* INFERENCE_INTERVAL; the window it gets is the buffer, the frame's own
\* vector last.
C21_InvocationGate ==
    obs.kind = "frame" /\ obs.invoked
    => /\ obs.stage = "model"
       /\ Len(processor.landmark_buffer) = BUFFER_SIZE
       /\ received >= BUFFER_SIZE
       /\ processor.frame_counter = obs.before.frame_counter + 1
       /\ processor.frame_counter % INFERENCE_INTERVAL = 0
       /\ LastFeatures = FrameFeatures(obs)

\* an invocation on a frame count that is no multiple of the interval: pinch
\* frames were not counted
C21_Witness ==
    /\ obs.kind = "frame" /\ obs.invoked
    /\ obs.prediction.label # None
    /\ received % INFERENCE_INTERVAL # 0
    /\ processor.frame_counter < received

\* C22: the threshold applied to a prediction is the GESTURE_THRESHOLDS entry
\* of the raw label when there is one, otherwise the entry of the cleaned
\* label when there is one, otherwise MODEL_CONFIDENCE_THRESHOLD.
ClaimedThreshold(thresholds, label) ==
    LET clean == SelectSeq(label, LAMBDA seg : seg # "_INTENCIONAL") IN
    IF label \in DOMAIN thresholds THEN thresholds[label]
    ELSE IF clean \in DOMAIN thresholds THEN thresholds[clean]
    ELSE MODEL_CONFIDENCE_THRESHOLD

C22_ThresholdOrder ==
    call # NoCall /\ call.fn = "threshold" /\ call.done
    => call.result.threshold
          = ClaimedThreshold(call.thresholds, call.prediction.label)

\* C23: a passing prediction of an intentional class of the data collector
\* (play_pause, next_track, prev_track, open_spotify, each with its training
\* suffix) is returned under its clean name: the command is the label's
\* first part alone, and the client's action executor knows it.
Intentional(label) ==
    /\ label \in GESTURE_CLASSES
    /\ label[1] \in {"play_pause", "next_track", "prev_track", "open_spotify"}

C23_CleanName ==
    (   obs.kind = "frame" /\ obs.stage = "model" /\ obs.ret # None
     /\ Intentional(obs.prediction.label))
    => /\ obs.ret = <<obs.prediction.label[1]>>
       /\ ExecuteAction(obs.ret) = "executing"

\* C24: the hand half of the feature vector is 63 zeros whenever the hand
\* input is empty or not exactly 21 points, and the pose half is 99 zeros
\* whenever the pose input is empty or not exactly 33 points, undersized and
\* oversized inputs alike.
PoseOf(data) == IF HasField(data, "pose") THEN data.pose ELSE << >>

C24_ZeroHalves ==
    obs.kind = "frame"
    => /\ Len(obs.smoothed) # HAND_LANDMARKS * 3
             => LastFeatures.hand = Zeros(HAND_LANDMARKS * 3)
       /\ Len(PoseOf(obs.data)) # POSE_LANDMARKS * 3
             => LastFeatures.pose = Zeros(POSE_LANDMARKS * 3)

\* C25: the shape classifier returns no label for every hand vector with
\* fewer than 63 values, the empty vector included: never pinch_active,
\* next_track_shape or play_pause_shape.
Detected == call # NoCall /\ call.fn = "detect" /\ call.done

C25_ShortVectorNone ==
    Detected /\ Len(call.lm_list) < HAND_LANDMARKS * 3 => call.result = None

\* C30: for a full 21-point hand the shape classifier returns the first
\* match in the order pinch_active, next_track_shape, play_pause_shape, else
\* nothing: a thumb-index distance below 0.045 gives pinch_active whatever
\* the fingers do, and no hand meets the conditions of next_track_shape and
\* play_pause_shape together, or of pinch_active and play_pause_shape.
PointOf(lm_list, k) == <<lm_list[3 * k + 1], lm_list[3 * k + 2], lm_list[3 * k + 3]>>

ThumbIndexSq(lm_list) ==
    LET t == PointOf(lm_list, 4)
        i == PointOf(lm_list, 8)
    IN (t[1] - i[1]) * (t[1] - i[1]) + (t[2] - i[2]) * (t[2] - i[2])
       + (t[3] - i[3]) * (t[3] - i[3])

PinchCondition(lm_list) ==
    ThumbIndexSq(lm_list) < PINCH_THRESHOLD_3D * PINCH_THRESHOLD_3D

NextTrackCondition(lm_list) ==
    /\ PointOf(lm_list, 8)[2] < PointOf(lm_list, 6)[2]
    /\ PointOf(lm_list, 12)[2] < PointOf(lm_list, 10)[2]
    /\ PointOf(lm_list, 16)[2] > PointOf(lm_list, 14)[2]
    /\ PointOf(lm_list, 16)[2] > PointOf(lm_list, 18)[2]

PlayPauseCondition(lm_list) ==
    /\ PointOf(lm_list, 8)[2] > PointOf(lm_list, 6)[2]
    /\ PointOf(lm_list, 12)[2] > PointOf(lm_list, 10)[2]
    /\ PointOf(lm_list, 16)[2] > PointOf(lm_list, 14)[2]
    /\ ThumbIndexSq(lm_list) > NOT_PINCH_DISTANCE * NOT_PINCH_DISTANCE
    /\ PointOf(lm_list, 6)[3] < PointOf(lm_list, 4)[3]

FirstMatch(lm_list) ==
    IF PinchCondition(lm_list) THEN <<"pinch_active">>
    ELSE IF NextTrackCondition(lm_list) THEN <<"next_track_shape">>
    ELSE IF PlayPauseCondition(lm_list) THEN <<"play_pause_shape">>
    ELSE None

C30_FirstMatch ==
    Detected /\ Len(call.lm_list) = HAND_LANDMARKS * 3
    => /\ call.result = FirstMatch(call.lm_list)
       /\ ~(NextTrackCondition(call.lm_list) /\ PlayPauseCondition(call.lm_list))
       /\ ~(PinchCondition(call.lm_list) /\ PlayPauseCondition(call.lm_list))

\* a pinching hand that also shows the two-finger shape: pinch_active
C30_Witness ==
    /\ Detected /\ Len(call.lm_list) = HAND_LANDMARKS * 3
    /\ PinchCondition(call.lm_list) /\ NextTrackCondition(call.lm_list)
    /\ call.result = <<"pinch_active">>

\* C29: is_gesture_contextually_valid returns true whenever the stable label
\* is not play_pause_shape and whenever the frame has no pose data; for
\* play_pause_shape with pose data it returns false exactly when both
\* |wrist_x - nose_x| < 0.25 and |wrist_y - nose_y| < 0.25; it changes no
\* engine state.
ContextChecked == call # NoCall /\ call.fn = "context" /\ call.done

HasNose(data) == "pose" \in DOMAIN data /\ Len(data.pose) >= 2

Offset(a, b) == IF a < b THEN b - a ELSE a - b

NoseNearWrist(data, lm_list) ==
    /\ Offset(lm_list[1], data.pose[1]) < FACE_MARGIN
    /\ Offset(lm_list[2], data.pose[2]) < FACE_MARGIN

C29_ContextCheck ==
    ContextChecked
    => /\ call.result \in BOOLEAN
       /\ call.gesture # <<"play_pause_shape">> => call.result = TRUE
       /\ ~HasNose(call.data) => call.result = TRUE
       /\ call.gesture = <<"play_pause_shape">> /\ HasNose(call.data)
             => (call.result = FALSE <=> NoseNearWrist(call.data, call.lm_list))
       /\ processor = NewProcessor(script.loaded)

\* a fist with the nose just inside the margin in x and exactly at it in y:
\* not rejected
C29_Witness ==
    /\ ContextChecked /\ call.gesture = <<"play_pause_shape">>
    /\ HasNose(call.data)
    /\ Offset(call.lm_list[1], call.data.pose[1]) = FACE_MARGIN - 1
    /\ Offset(call.lm_list[2], call.data.pose[2]) = FACE_MARGIN
    /\ call.result = TRUE

\* C26: a frame without a hand leaves the smoothing window as it was
\* (nothing appended, nothing evicted) and is processed with an empty
\* smoothed hand vector: its hand features are zeros and the index tip it
\* reads is at 0.
C26_NoHandKeepsWindow ==
    [][received' = received + 1 /\ obs'.kind = "frame" /\ ~obs'.has_hand
       => /\ processor'.history = processor.history
          /\ processor'.landmark_buffer[Len(processor'.landmark_buffer)].hand
                = Zeros(HAND_LANDMARKS * 3)
          /\ processor'.last_index_y \in {processor.last_index_y, <<0>>}]_vars

\* a frame without a hand after three frames with one
C26_Witness ==
    /\ obs.kind = "frame" /\ ~obs.has_hand
    /\ obs.prev.kind = "frame" /\ obs.prev.has_hand
    /\ Len(processor.history) = SMOOTHING_WINDOW
    /\ LastFeatures.hand = Zeros(HAND_LANDMARKS * 3)

\* C27: a frame processed while the engine is in cooldown changes only the
\* smoothing window and the feature buffer: the classifier is not invoked,
\* nothing is returned, and frame_counter, last_index_y,
\* current_stable_gesture, gesture_count and last_action_time stay as they
\* were.
CoolingDown ==
    obs.kind = "frame" /\ obs.now - obs.before.last_action_time < COOLDOWN

C27_CooldownFrame ==
    CoolingDown
    => /\ obs.stage = "cooldown"
       /\ ~obs.invoked
       /\ obs.ret = None
       /\ Before(processor) = obs.before

\* an open hand in cooldown: buffered and smoothed, the volume baseline and
\* the frame counter untouched
C27_Witness ==
    /\ CoolingDown /\ NotPinchFrame(obs)
    /\ obs.now > obs.before.last_action_time
    /\ processor.last_index_y # NoValue
    /\ processor.history[Len(processor.history)] = obs.data.hands
    /\ LastFeatures = FrameFeatures(obs)

\* C28: a session's frames are processed one at a time in arrival order, and
\* the command of frame k is sent before frame k+1 is processed: commands
\* are sent in the order of the frames that caused them.
C28_SentInFrameOrder ==
    /\ \A i \in 1..Len(sent) : sent[i].frame <= received
    /\ \A i, j \in 1..Len(sent) : i < j => sent[i].frame < sent[j].frame
    /\ obs.kind = "frame" /\ obs.ret # None
          => /\ Len(sent) = obs.sent_before + 1
             /\ sent[Len(sent)]
                   = [gesture |-> obs.ret, at |-> obs.now, frame |-> received]
    /\ obs.kind = "frame" /\ obs.ret = None => Len(sent) = obs.sent_before

\* two commands of different frames, and a frame processed after the second
C28_Witness ==
    /\ Len(sent) = 2
    /\ sent[1].frame < sent[2].frame
    /\ sent[2].frame < received
    /\ obs.kind = "frame" /\ obs.ret = None

\* C31: last_action_time changes on a frame if and only if the frame returns
\* a command, and it then becomes the frame's clock reading; a frame that
\* returns nothing (cooldown, dead-band pinch, classifier not asked,
\* prediction not above its threshold, negative class, classifier failure),
\* a frame that raises and a dropped message leave it as it was.
C31_ActionTimeIffCommand ==
    /\ obs.kind \in {"frame", "raised"}
          => /\ (processor.last_action_time # obs.before.last_action_time)
                   <=> (obs.ret # None)
             /\ obs.ret # None => processor.last_action_time = obs.now
    /\ obs.kind = "dropped"
          => processor.last_action_time = obs.before.last_action_time

\* a command right after a pinch frame that returned nothing outside
\* cooldown and left last_action_time at its initial value
C31_Witness ==
    /\ obs.kind = "frame" /\ obs.ret # None
    /\ obs.prev.kind = "frame" /\ obs.prev.stage = "pinch" /\ obs.prev.ret = None
    /\ obs.before.last_action_time = NewProcessor(TRUE).last_action_time
    /\ processor.last_action_time = obs.now
    /\ obs.now # obs.before.last_action_time

\* C32: on a frame outside cooldown whose smoothed thumb and index tips are
\* closer than PINCH_THRESHOLD_3D, the only commands that can be returned
\* are volume_up and volume_down; the stability state is (no label, 0)
\* afterwards, the classifier is not invoked and frame_counter is as it was,
\* with or without a volume command.
PinchDetected ==
    /\ obs.kind = "frame" /\ ~CoolingDown
    /\ ~Raises(GetCoords(obs.smoothed, 4)) /\ ~Raises(GetCoords(obs.smoothed, 8))
    /\ IsPinch(GetCoords(obs.smoothed, 4), GetCoords(obs.smoothed, 8))

C32_PinchFrame ==
    PinchDetected
    => /\ obs.ret \in {None, <<"volume_up">>, <<"volume_down">>}
       /\ processor.current_stable_gesture = None
       /\ processor.gesture_count = 0
       /\ ~obs.invoked
       /\ processor.frame_counter = obs.before.frame_counter

\* a pinch that returns a volume command on the frame on which, the buffer
\* full and the counter one short of the interval, any other hand would
\* have had the classifier asked
C32_Witness ==
    /\ PinchDetected /\ obs.has_hand
    /\ obs.ret \in {<<"volume_up">>, <<"volume_down">>}
    /\ Len(processor.landmark_buffer) = BUFFER_SIZE
    /\ (obs.before.frame_counter + 1) % INFERENCE_INTERVAL = 0
    /\ processor.frame_counter = obs.before.frame_counter

\* C33: frame_counter never decreases and grows by at most 1 per processed
\* frame, and any two frames of a session on which the classifier is invoked
\* are at least INFERENCE_INTERVAL frames apart: at most one invocation in
\* any INFERENCE_INTERVAL consecutive frames.
C33_InvocationCadence ==
    /\ [](\A i, j \in 1..Len(obs.invoked_at) :
            i < j => obs.invoked_at[j] - obs.invoked_at[i] >= INFERENCE_INTERVAL)
    /\ [][/\ processor'.frame_counter >= processor.frame_counter
          /\ processor'.frame_counter <= processor.frame_counter + 1
          /\ received' = received
                => processor'.frame_counter = processor.frame_counter]_vars

\* the classifier invoked a second time, the counter at twice the interval
\* past the first invocation's frames
C33_Witness ==
    /\ Len(obs.invoked_at) = 2
    /\ obs.invoked /\ obs.invoked_at[2] = received
    /\ processor.frame_counter = BUFFER_SIZE + INFERENCE_INTERVAL
    /\ obs.invoked_at[2] - obs.invoked_at[1] >= INFERENCE_INTERVAL

\* C34: a message that parse_message rejects (a text that is not valid JSON,
\* or an object whose protocol version is not "1.0") is dropped without a
\* call of process_landmarks: the processor is as it was, nothing is sent,
\* and the session stays open for the next message.
Rejected ==
    /\ obs.kind \in {"dropped", "failed"}
    /\ \/ ~obs.message.well_formed
       \/ /\ obs.message.value.type = "object"
          /\ \/ ~HasField(obs.message.value.fields, "version")
             \/ obs.message.value.fields.version # PROTOCOL_VERSION

C34_RejectedDropped ==
    Rejected
    => /\ Before(processor) = obs.before
       /\ Len(sent) = obs.sent_before
       /\ obs.kind = "dropped"
       /\ connection = "open"

\* C35: the client's send queue never holds more than 30 frames; send_data
\* called with the queue full, or before a connection is established,
\* discards the new frame and leaves the queued frames as they were; and the
\* frames sent leave in the order in which they were queued, whatever the
\* interleaving of the capture loop and the sender loop.
RECURSIVE Increasing(_)
Increasing(q) ==
    Len(q) < 2 \/ (q[1] < q[2] /\ Increasing(Tail(q)))

Held == IF client.data_json = 0 THEN << >> ELSE <<client.data_json>>

C35_SendQueue ==
    /\ [](/\ Len(client.message_queue) <= QUEUE_MAXSIZE
          /\ Increasing(client.wire \o Held \o client.message_queue))
    /\ [][client'.captured = client.captured + 1
          => IF   client.websocket = "none"
               \/ Len(client.message_queue) = QUEUE_MAXSIZE
             THEN client'.message_queue = client.message_queue
             ELSE client'.message_queue
                     = Append(client.message_queue, client'.captured)]_vars

\* a frame discarded at a full queue, after a frame discarded before the
\* connection and frames sent in between
C35_Witness ==
    /\ Len(client.message_queue) = QUEUE_MAXSIZE
    /\ client.last.connected /\ client.last.full
    /\ client.last.frame = client.captured
    /\ client.message_queue[QUEUE_MAXSIZE] < client.captured
    /\ client.wire # << >> /\ client.wire[1] > 1

\* C36: once the server has closed the connection, the receiver loop and
\* the sender loop both terminate and connect_and_listen returns, even when
\* no frame is queued after the close.
C36_ClientReturns ==
    (client.websocket = "closed") ~> client.returned

\* C37: on every frame the server's _normalize_features and the training
\* pipeline's normalize_frame decide alike, for each half, between
\* normalizing it and filling it with zeros, and both return 162 values.
Normalized == call # NoCall /\ call.fn = "normalize" /\ call.done

ZeroFilled(half, n) == half = Zeros(n)

C37_NormalizersAgree ==
    Normalized
    => /\ ZeroFilled(call.result.server.hand, HAND_LANDMARKS * 3)
             <=> ZeroFilled(call.result.training.hand, HAND_LANDMARKS * 3)
       /\ ZeroFilled(call.result.server.pose, POSE_LANDMARKS * 3)
             <=> ZeroFilled(call.result.training.pose, POSE_LANDMARKS * 3)
       /\ FeatureLen(call.result.server) = HAND_LANDMARKS * 3 + POSE_LANDMARKS * 3
       /\ FeatureLen(call.result.training) = HAND_LANDMARKS * 3 + POSE_LANDMARKS * 3

\* C38: serialize_landmarks returns no message exactly when the results hold
\* neither hand nor pose landmarks; a message it returns is accepted by
\* parse_message, carries version "1.0", has 'hands' exactly when a hand was
\* detected and 'pose' exactly when a pose was, and the two lists are the
\* coordinates of the first hand and of the pose, in landmark order.
Serialized == call # NoCall /\ call.fn = "serialize" /\ call.done

HandDetected == call.data.multi_hand_landmarks # << >>
PoseDetected == call.data.pose_landmarks.detected

\* value i of the flat list is coordinate ((i - 1) mod 3) of landmark
\* (i - 1) div 3
Coordinates(landmark) ==
    [i \in 1..(3 * Len(landmark)) |->
        landmark[((i - 1) \div 3) + 1][((i - 1) % 3) + 1]]

C38_SerializeParse ==
    Serialized
    => /\ ~call.result.message.returned <=> (~HandDetected /\ ~PoseDetected)
       /\ call.result.message.returned
             => /\ call.result.parsed.raises = "none"
                /\ LET data == call.result.parsed.value.fields IN
                   /\ data.version = "1.0"
                   /\ HasField(data, "hands") <=> HandDetected
                   /\ HasField(data, "pose") <=> PoseDetected
                   /\ HandDetected
                         => data.hands
                              = Coordinates(call.data.multi_hand_landmarks[1].landmark)
                   /\ PoseDetected
                         => data.pose
                              = Coordinates(call.data.pose_landmarks.landmark)

\* a pose without a hand: a message with 'pose' and no 'hands'
C38_Witness ==
    /\ Serialized /\ ~HandDetected /\ PoseDetected
    /\ call.result.message.returned
    /\ call.result.parsed.raises = "none"
    /\ ~HasField(call.result.parsed.value.fields, "hands")
    /\ Len(call.result.parsed.value.fields.pose) = POSE_LANDMARKS * 3
    /\ call.result.parsed.value.fields.pose[2] # 100

====
